---- MODULE Spec2Model ----
(***************************************************************************)
(* A model of georm: the derive macro that synthesizes parameterized SQL   *)
(* for an entity definition (georm-macros) and the operations the          *)
(* generated code performs against one PostgreSQL table (georm).           *)
(*                                                                         *)
(* A query is modelled by its structure, not its text: a column is the     *)
(* field identifier written in the text, a placeholder "$n" is the number  *)
(* n, and the bind list is the sequence of `self.<field>` arguments handed *)
(* to sqlx, so that placeholder $n consumes the n-th element of the bind   *)
(* list, as PostgreSQL does.                                               *)
(***************************************************************************)
EXTENDS Integers, Sequences, FiniteSets, TLC

(***************************************************************************)
(* Bounds of the model.                                                    *)
(***************************************************************************)
\* Largest number of fields of an entity definition given to the generator.
MaxFields == 3

\* Field values are 1..MaxVal.
MaxVal == 2

\* Largest number of rows stored in the table.
MaxRows == 2

\* Number of concurrent callers.
MaxCallers == 2

\* The longest chain of relationship accessors a caller traverses.
MaxChain == 3

\* Field identifiers, by declaration position.
Idents == <<"a", "b", "c", "d", "e">>

\* Semantic types of a field: a plain type and an optional one.
Types == {"i32", "Option<i32>"}

\* The name of the struct the derive is applied to (ast.ident).
StructName == "Entity"

(***************************************************************************)
(* State.                                                                  *)
(***************************************************************************)
VARIABLES
    fields,     \* the entity definition: the struct's fields with their georm attributes
    phase,      \* how far the generator, or the generated code, has got
    idType,     \* the IdType create_primary_key resolved
    queries,    \* the queries derive_trait synthesized
    output,     \* what georm_derive_macro2 returned
    dstruct,    \* the companion struct derive_defaultable_struct generated
    dquery,     \* the INSERT the default-aware create built at call time
    table,      \* the rows stored in the entity's table
    ret,        \* the last call of a generated operation and what it returned
    callers,    \* the concurrent callers of create_or_update
    struct_attrs, \* the relationships the entity definition declares
    rel,        \* what derive_relationships generated
    db          \* the rows of the other tables of the database, by table name

genVars == <<fields, phase, idType, queries, output, dstruct, dquery>>

relVars == <<struct_attrs, rel, db>>

vars == <<fields, phase, idType, queries, output, dstruct, dquery, table, ret, callers,
          struct_attrs, rel, db>>

(***************************************************************************)
(* Small helpers on sequences.                                             *)
(***************************************************************************)
Range(s) == {s[i] : i \in DOMAIN s}

\* iter().map(f).collect()
MapSeq(s, F(_)) == [i \in DOMAIN s |-> F(s[i])]

\* iter().filter(p).collect()
FilterSeq(s, P(_)) == SelectSeq(s, P)

\* (1..=n).collect()
OneTo(n) == [i \in 1..n |-> i]

(***************************************************************************)
(* The entity definitions the generator is given.                          *)
(***************************************************************************)
FieldAttrs == [ty : Types, id : BOOLEAN, defaultable : BOOLEAN]

Field(i, attrs) ==
    [ident |-> Idents[i], ty |-> attrs.ty, id |-> attrs.id,
     defaultable |-> attrs.defaultable]

EntityDefs ==
    UNION {{[i \in 1..n |-> Field(i, attrs[i])] : attrs \in [1..n -> FieldAttrs]}
           : n \in 0..MaxFields}

(***************************************************************************)
(* georm-macros/src/georm/ir/mod.rs                                        *)
(***************************************************************************)
is_option_type(ty) == ty = "Option<i32>"

\* deluxe::extract_attributes into GeormFieldAttributes fails on a key the
\* struct does not declare (it declares id, relation and defaultable): a
\* field that carries `column` holds what was written in f.column.
ExtractAttributesFails(f) == "column" \in DOMAIN f /\ f.column # "<omitted>"

\* A GeormField::new that takes every field.
GeormFieldNew_unchecked(f) == FALSE

\* GeormField::new panics on a defaultable field that is already an Option.
GeormFieldNewPanics(f) == f.defaultable /\ is_option_type(f.ty)

(***************************************************************************)
(* georm-macros/src/georm/composite_keys.rs                                *)
(***************************************************************************)
IsId(f) == f.id

IdField(f) == [name |-> f.ident, ty |-> f.ty]

\* The members of the key struct, "pub <ident>: <ty>", and its name.
generate_struct(fs) ==
    [name |-> StructName \o "Id", members |-> MapSeq(FilterSeq(fs, IsId), IdField)]

NoStruct == [name |-> "", members |-> <<>>]

NoIdType == [shape |-> "none", fields |-> <<>>, field_type |-> "", struct |-> NoStruct]

create_primary_key(fs) ==
    LET id_fields == MapSeq(FilterSeq(fs, IsId), IdField)
    IN  CASE Len(id_fields) = 0 ->
                [shape |-> "panic", fields |-> <<>>, field_type |-> "",
                 struct |-> NoStruct]
          [] Len(id_fields) = 1 ->
                [shape |-> "Simple", fields |-> <<id_fields[1]>>,
                 field_type |-> id_fields[1].ty, struct |-> NoStruct]
          [] OTHER ->
                [shape |-> "Composite", fields |-> id_fields,
                 field_type |-> generate_struct(fs).name,
                 struct |-> generate_struct(fs)]

\* The names of the identifier fields an IdType carries (field_name, or fields[..].name).
IdNames(id) == [i \in DOMAIN id.fields |-> id.fields[i].name]

(***************************************************************************)
(* georm-macros/src/georm/traits: the synthesized queries.                 *)
(***************************************************************************)
Ident(f) == f.ident

NotId(f) == ~f.id

\* (i, x) of iter().enumerate(), written "<x> = $<i + offset + 1>" (i counts from 0).
Numbered(names, offset) ==
    [j \in DOMAIN names |-> [col |-> names[j], ph |-> offset + (j - 1) + 1]]

\* generate_create_query numbering its placeholders from (0..fields.len()).
generate_create_query_from_zero(fs) ==
    [columns |-> MapSeq(fs, Ident),
     inputs  |-> [i \in 1..Len(fs) |-> i - 1],
     binds   |-> MapSeq(fs, Ident)]

\* A create query that binds the fields in the reverse of the column order.
generate_create_query_reversed_binds(fs) ==
    [columns |-> MapSeq(fs, Ident),
     inputs  |-> OneTo(Len(fs)),
     binds   |-> [i \in 1..Len(fs) |-> fs[Len(fs) + 1 - i].ident]]

\* traits/create.rs: INSERT INTO t (<columns>) VALUES (<inputs>) RETURNING *
generate_create_query(fs) ==
    [columns |-> MapSeq(fs, Ident),
     inputs  |-> OneTo(Len(fs)),
     binds   |-> MapSeq(fs, Ident)]

\* update_where_clause numbering the identifier fields from $1, as find does.
update_where_clause_from_one(id, non_id_fields) ==
    IF id.shape = "Simple"
    THEN <<[col |-> id.fields[1].name, ph |-> 1]>>
    ELSE Numbered(IdNames(id), 0)

\* An update whose WHERE clause compares the first identifier field alone.
update_where_clause_first_member(id, non_id_fields) ==
    <<[col |-> id.fields[1].name, ph |-> Len(non_id_fields) + 1]>>

\* The WHERE clause of update and the identifier fields pushed on all_fields.
update_where_clause(id, non_id_fields) ==
    IF id.shape = "Simple"
    THEN <<[col |-> id.fields[1].name, ph |-> Len(non_id_fields) + 1]>>
    ELSE Numbered(IdNames(id), Len(non_id_fields))

\* traits/update.rs: UPDATE t SET <set> WHERE <where> RETURNING *
generate_update_query(fs, id) ==
    LET non_id_fields == MapSeq(FilterSeq(fs, NotId), Ident)
    IN  [set   |-> Numbered(non_id_fields, 0),
         where |-> update_where_clause(id, non_id_fields),
         binds |-> non_id_fields \o IdNames(id)]

\* The assignment "<f> = EXCLUDED.<f>".
Excluded(name) == [col |-> name, excluded |-> name]

\* An upsert whose DO UPDATE SET keeps the identifier fields instead of the others.
generate_upsert_query_set_ids(fs, id) ==
    [columns  |-> MapSeq(fs, Ident),
     inputs   |-> OneTo(Len(fs)),
     conflict |-> IdNames(id),
     set      |-> MapSeq(MapSeq(FilterSeq(fs, IsId), Ident), Excluded),
     binds    |-> MapSeq(fs, Ident)]

\* traits/upsert.rs: INSERT INTO t (<columns>) VALUES (<inputs>)
\*                   ON CONFLICT (<conflict>) DO UPDATE SET <set> RETURNING *
generate_upsert_query(fs, id) ==
    [columns  |-> MapSeq(fs, Ident),
     inputs   |-> OneTo(Len(fs)),
     conflict |-> IdNames(id),
     set      |-> MapSeq(MapSeq(FilterSeq(fs, NotId), Ident), Excluded),
     binds    |-> MapSeq(fs, Ident)]

\* traits/find.rs: SELECT * FROM t, without a condition or a bound parameter.
generate_find_all_query == [where |-> <<>>, binds |-> <<>>]

\* A find query whose condition compares the first identifier column alone.
generate_find_query_first_member(id) ==
    [where |-> <<[col |-> id.fields[1].name, ph |-> 1]>>,
     binds |-> <<IF id.shape = "Simple" THEN "id" ELSE id.fields[1].name>>]

\* traits/find.rs: SELECT * FROM t WHERE <where>; binds are members of the key
\* (<<>> names the key itself, the `id` argument of a simple identifier).
generate_find_query(id) ==
    IF id.shape = "Simple"
    THEN [where |-> <<[col |-> id.fields[1].name, ph |-> 1]>>, binds |-> <<"id">>]
    ELSE [where |-> Numbered(IdNames(id), 0), binds |-> IdNames(id)]

\* A delete query whose condition compares the first identifier column alone.
generate_delete_query_first_member(id) ==
    [where |-> <<[col |-> id.fields[1].name, ph |-> 1]>>,
     binds |-> <<IF id.shape = "Simple" THEN "id" ELSE id.fields[1].name>>]

\* traits/delete.rs: DELETE FROM t WHERE <where>
generate_delete_query(id) ==
    IF id.shape = "Simple"
    THEN [where |-> <<[col |-> id.fields[1].name, ph |-> 1]>>, binds |-> <<"id">>]
    ELSE [where |-> Numbered(IdNames(id), 0), binds |-> IdNames(id)]

\* A get_id that fills the members of the key from the identifier fields in
\* reverse order.
generate_get_id_crossed(id) ==
    IF id.shape = "Simple"
    THEN <<[member |-> "id", from |-> id.fields[1].name]>>
    ELSE [j \in DOMAIN id.fields |->
            [member |-> id.fields[j].name,
             from   |-> id.fields[Len(id.fields) + 1 - j].name]]

\* traits/mod.rs: get_id copies self.<field> to the key, or to each member of it.
generate_get_id(id) ==
    IF id.shape = "Simple"
    THEN <<[member |-> "id", from |-> id.fields[1].name]>>
    ELSE [j \in DOMAIN id.fields |->
            [member |-> id.fields[j].name, from |-> id.fields[j].name]]

NoQueries == [generated |-> FALSE]

\* traits/mod.rs: impl Georm<ty> for the struct.
derive_trait(fs, id) ==
    [generated |-> TRUE,
     ty        |-> id.field_type,
     get_id    |-> generate_get_id(id),
     find_all  |-> generate_find_all_query,
     find      |-> generate_find_query(id),
     create    |-> generate_create_query(fs),
     update    |-> generate_update_query(fs, id),
     upsert    |-> generate_upsert_query(fs, id),
     delete    |-> generate_delete_query(id)]

(***************************************************************************)
(* georm-macros/src/georm/defaultable_struct.rs                            *)
(***************************************************************************)
IsDefaultable(f) == f.defaultable

NotDefaultable(f) == ~f.defaultable

\* A field of the companion struct: a defaultable field is wrapped in Option.
create_defaultable_field(f) ==
    [ident |-> f.ident,
     ty    |-> IF f.defaultable THEN "Option<" \o f.ty \o ">" ELSE f.ty]

NoDefaultable == [generated |-> FALSE, panic |-> FALSE, name |-> "", fields |-> <<>>]

\* Nothing is generated without a defaultable field; the trait impl expects an
\* identifier field ("Must have an ID field").
derive_defaultable_struct(fs) ==
    IF \A i \in DOMAIN fs : ~fs[i].defaultable
    THEN NoDefaultable
    ELSE IF \A i \in DOMAIN fs : ~fs[i].id
         THEN [NoDefaultable EXCEPT !.panic = TRUE]
         ELSE [generated |-> TRUE, panic |-> FALSE,
               name      |-> StructName \o "Default",
               fields    |-> MapSeq(fs, create_defaultable_field)]

\* field_checks: the names of the defaultable fields that are Some, pushed in
\* the order of the defaultable fields.
dynamic_fields(fs, some) ==
    LET IsSome(name) == name \in some
    IN  FilterSeq(MapSeq(FilterSeq(fs, IsDefaultable), Ident), IsSome)

\* bind_checks binding every defaultable field, a None included.
dynamic_binds_unchecked(fs, some) ==
    MapSeq(FilterSeq(fs, IsDefaultable), Ident)

\* bind_checks: the defaultable fields bound, those that are Some.
dynamic_binds(fs, some) ==
    LET IsSome(name) == name \in some
    IN  FilterSeq(MapSeq(FilterSeq(fs, IsDefaultable), Ident), IsSome)

NoDQuery == [built |-> FALSE]

\* Defaultable::create, as generated: the INSERT built at call time for a
\* companion value whose defaultable fields in `some` hold a value.
defaultable_create(fs, some) ==
    LET static_field_names == MapSeq(FilterSeq(fs, NotDefaultable), Ident)
        all_fields == static_field_names \o dynamic_fields(fs, some)
    IN  [built        |-> TRUE,
         some         |-> some,
         columns      |-> all_fields,
         placeholders |-> OneTo(Len(all_fields)),
         binds        |-> MapSeq(FilterSeq(fs, NotDefaultable), Ident)
                            \o dynamic_binds(fs, some)]

(***************************************************************************)
(* georm-macros/src/georm/ir and relationships.rs: the relationship        *)
(* declarations, their extraction and the accessors generated for them.    *)
(* A declaration is the record of the keys the user wrote; a key left out  *)
(* holds Omitted. The field-level `relation` attributes are kept with the  *)
(* struct-level lists, each naming its field.                              *)
(***************************************************************************)
Omitted == "<omitted>"

\* The table of the entity (struct_attrs.table), of the entity its
\* relationships point to, and of the links of a many-to-many relationship.
LocalTable == "locals"

RemoteTable == "remotes"

LinkTable == "links"

NoAttrs == [table |-> LocalTable, relation |-> <<>>, one_to_one |-> <<>>,
            one_to_many |-> <<>>, many_to_many |-> <<>>]

\* #[deluxe(default = String::from("id"))] remote_id, #[deluxe(default = false)] nullable
O2ORelationship(d) ==
    [status |-> "ok",
     value  |-> [field     |-> d.field,
                 name      |-> d.name,
                 table     |-> d.table,
                 remote_id |-> IF d.remote_id = Omitted THEN "id" ELSE d.remote_id,
                 nullable  |-> IF d.nullable = Omitted THEN FALSE ELSE d.nullable = "true"]]

\* SimpleRelationship<T>: remote_id carries no default, so it must be written.
SimpleRelationship(d) ==
    IF d.remote_id = Omitted
    THEN [status |-> "error", value |-> d]
    ELSE [status |-> "ok",
          value  |-> [name |-> d.name, table |-> d.table, remote_id |-> d.remote_id]]

\* M2MRelationship: #[deluxe(default = String::from("id"))] remote_id
M2MRelationship(d) ==
    [status |-> "ok",
     value  |-> [name      |-> d.name,
                 table     |-> d.table,
                 remote_id |-> IF d.remote_id = Omitted THEN "id" ELSE d.remote_id,
                 link      |-> d.link]]

Value(parsed) == parsed.value

\* deluxe::extract_attributes on the struct and on its fields: the parsed
\* lists, or the failure of .expect(..) when a declaration does not parse.
GeormStructAttributes(at) ==
    LET relation     == MapSeq(at.relation, O2ORelationship)
        one_to_one   == MapSeq(at.one_to_one, SimpleRelationship)
        one_to_many  == MapSeq(at.one_to_many, SimpleRelationship)
        many_to_many == MapSeq(at.many_to_many, M2MRelationship)
    IN  IF \E p \in Range(one_to_one) \cup Range(one_to_many) : p.status # "ok"
        THEN [status |-> "panic", message |-> "Could not extract attributes from struct"]
        ELSE [status       |-> "ok",
              message      |-> "",
              table        |-> at.table,
              relation     |-> MapSeq(relation, Value),
              one_to_one   |-> MapSeq(one_to_one, Value),
              one_to_many  |-> MapSeq(one_to_many, Value),
              many_to_many |-> MapSeq(many_to_many, Value)]

\* The argument `self.get_id()` of an accessor of the struct-level relationships.
SelfGetId == "self.get_id()"

\* A field-level accessor that fetches one row whatever `nullable` says.
GeormFieldAccessor_fetch_one(r) ==
    [function |-> "get_" \o r.name,
     query    |-> [from |-> r.table, where |-> <<[col |-> r.remote_id, ph |-> 1]>>],
     binds    |-> <<r.field>>,
     fetch    |-> "fetch_one"]

\* impl From<&GeormField> for TokenStream: the accessor of a field-level relation,
\* "SELECT * FROM <table> WHERE <remote_id> = $1" bound to self.<field>.
GeormFieldAccessor(r) ==
    [function |-> "get_" \o r.name,
     query    |-> [from |-> r.table, where |-> <<[col |-> r.remote_id, ph |-> 1]>>],
     binds    |-> <<r.field>>,
     fetch    |-> IF r.nullable THEN "fetch_optional" ELSE "fetch_one"]

\* SimpleRelationship::make_query
make_query(r) == [from |-> r.table, where |-> <<[col |-> r.remote_id, ph |-> 1]>>]

\* A struct-level one-to-one accessor under fetch_one.
OneToOneAccessor_fetch_one(r) ==
    [function |-> "get_" \o r.name, query |-> make_query(r),
     binds |-> <<SelfGetId>>, fetch |-> "fetch_one"]

\* A one-to-many accessor whose query compares the target's own key column.
OneToManyAccessor_by_id(r) ==
    [function |-> "get_" \o r.name,
     query |-> [from |-> r.table, where |-> <<[col |-> "id", ph |-> 1]>>],
     binds |-> <<SelfGetId>>, fetch |-> "fetch_all"]

\* impl From<&SimpleRelationship<OneToOne>> for TokenStream
OneToOneAccessor(r) ==
    [function |-> "get_" \o r.name, query |-> make_query(r),
     binds |-> <<SelfGetId>>, fetch |-> "fetch_optional"]

\* impl From<&SimpleRelationship<OneToMany>> for TokenStream
OneToManyAccessor(r) ==
    [function |-> "get_" \o r.name, query |-> make_query(r),
     binds |-> <<SelfGetId>>, fetch |-> "fetch_all"]

\* M2MRelationshipComplete::new
M2MRelationshipComplete(other, local_table, local_id) ==
    [name   |-> other.name,
     link   |-> other.link,
     local  |-> [table |-> local_table, id |-> local_id],
     remote |-> [table |-> other.table, id |-> other.remote_id]]

\* A many-to-many query whose second join compares link.<from> with the remote key.
M2MAccessor_join_from(v) ==
    [function |-> "get_" \o v.name,
     query    |-> [local       |-> v.local.table,
                   join_link   |-> [table |-> v.link.table, link |-> v.link.from,
                                    local |-> v.local.id],
                   join_remote |-> [table |-> v.remote.table, link |-> v.link.from,
                                    remote |-> v.remote.id],
                   where       |-> <<[col |-> v.local.id, ph |-> 1]>>],
     binds    |-> <<SelfGetId>>,
     fetch    |-> "fetch_all"]

\* impl From<&M2MRelationshipComplete> for TokenStream:
\* SELECT remote.* FROM <local> local
\* JOIN <link> link ON link.<from> = local.<id>
\* JOIN <remote> remote ON link.<to> = remote.<remote_id>
\* WHERE local.<id> = $1
M2MAccessor(v) ==
    [function |-> "get_" \o v.name,
     query    |-> [local       |-> v.local.table,
                   join_link   |-> [table |-> v.link.table, link |-> v.link.from,
                                    local |-> v.local.id],
                   join_remote |-> [table |-> v.remote.table, link |-> v.link.to,
                                    remote |-> v.remote.id],
                   where       |-> <<[col |-> v.local.id, ph |-> 1]>>],
     binds    |-> <<SelfGetId>>,
     fetch    |-> "fetch_all"]

NoRel == [generated |-> FALSE, warning |-> FALSE, accessors |-> <<>>]

\* relationships.rs: nothing but a warning for a composite identifier, the
\* impl block with the accessors of the four kinds otherwise. derive(fields)
\* emits the accessors of the fields in declaration order.
derive_relationships(sa, fs, id) ==
    IF id.shape = "Composite"
    THEN [generated |-> FALSE, warning |-> TRUE, accessors |-> <<>>]
    ELSE LET HasRelation(r) == \E i \in DOMAIN fs : fs[i].ident = r.field
             Complete(v) ==
                 M2MRelationshipComplete(v, sa.table, id.fields[1].name)
         IN  [generated |-> TRUE,
              warning   |-> FALSE,
              accessors |->
                  MapSeq(FilterSeq(sa.relation, HasRelation), GeormFieldAccessor)
                  \o MapSeq(sa.one_to_one, OneToOneAccessor)
                  \o MapSeq(sa.one_to_many, OneToManyAccessor)
                  \o MapSeq(MapSeq(sa.many_to_many, Complete), M2MAccessor)]

(***************************************************************************)
(* georm-macros/src/georm/mod.rs                                           *)
(***************************************************************************)
\* The field whose GeormField::new panics: the first one, in declaration
\* order, that is defaultable and an Option; the panic message names it.
PanickingField(fs) ==
    LET bad == {i \in DOMAIN fs : GeormFieldNewPanics(fs[i])}
    IN  fs[CHOOSE i \in bad : \A j \in bad : i <= j].ident

\* GeormField::new is applied to the fields in declaration order: the first
\* field it fails on fails at .expect(..), before the check of defaultable.
ExpectFails(fs) ==
    \E i \in DOMAIN fs :
        /\ ExtractAttributesFails(fs[i])
        /\ \A j \in 1..(i - 1) : ~GeormFieldNewPanics(fs[j])

\* extract_georm_field_attrs without the arm for no identifier.
extract_georm_field_attrs_no_zero_arm(fs) ==
    LET identifiers == FilterSeq(fs, IsId)
    IN  CASE ExpectFails(fs) ->
                [status |-> "panic", message |-> "Could not extract attributes from field",
                 field |-> ""]
          [] \E i \in DOMAIN fs : GeormFieldNewPanics(fs[i]) ->
                [status |-> "panic", message |-> "cannot be marked as defaultable",
                 field |-> PanickingField(fs)]
          [] Len(identifiers) <= 1 ->
                [status |-> "ok", message |-> "", field |-> ""]
          [] OTHER ->
                [status |-> "error", message |-> "Only one identifier is supported",
                 field |-> ""]

\* Ok((fields, id)) for exactly one identifier field, an error otherwise; the
\* construction of a GeormField may panic first.
extract_georm_field_attrs(fs) ==
    LET identifiers == FilterSeq(fs, IsId)
    IN  CASE ExpectFails(fs) ->
                [status |-> "panic", message |-> "Could not extract attributes from field",
                 field |-> ""]
          [] \E i \in DOMAIN fs : GeormFieldNewPanics(fs[i]) ->
                [status |-> "panic", message |-> "cannot be marked as defaultable",
                 field |-> PanickingField(fs)]
          [] Len(identifiers) = 0 ->
                [status |-> "error", message |-> "must have one identifier", field |-> ""]
          [] Len(identifiers) = 1 ->
                [status |-> "ok", message |-> "", field |-> ""]
          [] OTHER ->
                [status |-> "error", message |-> "Only one identifier is supported",
                 field |-> ""]

NoOutput ==
    [status |-> "none", message |-> "", field |-> "", id |-> NoIdType,
     relationships |-> NoRel, trait_impl |-> NoQueries,
     defaultable_struct |-> NoDefaultable]

\* The derive: the struct attributes are extracted (.expect), an error of the
\* field extraction is returned (`?`), otherwise the code for the entity is
\* emitted. derive_relationships and derive_trait take the identifier as an
\* IdType: the one identifier field extraction returned is the Simple shape.
georm_derive_macro2(at, fs) ==
    LET sa == GeormStructAttributes(at)
        extracted == extract_georm_field_attrs(fs)
    IN  IF sa.status # "ok"
        THEN [NoOutput EXCEPT !.status = sa.status, !.message = sa.message]
        ELSE IF extracted.status # "ok"
        THEN [NoOutput EXCEPT !.status = extracted.status,
                              !.message = extracted.message,
                              !.field = extracted.field]
        ELSE [status        |-> "ok",
              message       |-> "",
              field         |-> "",
              id            |-> create_primary_key(fs),
              relationships |-> derive_relationships(sa, fs, create_primary_key(fs)),
              trait_impl    |-> derive_trait(fs, create_primary_key(fs)),
              defaultable_struct |-> derive_defaultable_struct(fs)]

(***************************************************************************)
(* The table and the statements PostgreSQL executes on it. A statement is  *)
(* executed atomically; `args` is the list of bound parameters, so that    *)
(* placeholder $n stands for args[n].                                      *)
(***************************************************************************)
Val == 1..MaxVal

\* The other tables, empty.
NoDb == [t \in {RemoteTable, LinkTable} |-> {}]

\* The value of no row: fetch_optional's None, or the row of a failed call.
NoRow == [none |-> TRUE]

NoRet == [op |-> "none", arg |-> NoRow, status |-> "none", row |-> NoRow]

FieldIdents(fs) == {fs[i].ident : i \in DOMAIN fs}

\* The primary key of the table: the identifier fields of the entity.
PrimaryKey(fs) == {fs[i].ident : i \in {j \in DOMAIN fs : fs[j].id}}

\* A non-identifier field holds one of two values, neither an identifier value
\* (the entities' payloads are names and dates): no operation reads a payload.
Payload == {MaxVal + 1, MaxVal + 2}

\* The values of an entity struct, and the rows of its table: the columns are
\* named as the fields (FromRow reads column <ident> into field <ident>).
Instances(fs) ==
    {k @@ p : k \in [PrimaryKey(fs) -> Val],
              p \in [FieldIdents(fs) \ PrimaryKey(fs) -> Payload]}

SameKey(r1, r2, key) == \A c \in key : r1[c] = r2[c]

\* The bound parameters: each `self.<field>` (or `id.<member>`) of the bind list.
Args(binds, self) == [i \in DOMAIN binds |-> self[binds[i]]]

\* Every placeholder of the statement has a bound parameter.
Bound(placeholders, args) == \A n \in placeholders : n \in DOMAIN args

\* The row of INSERT INTO t (<columns>) VALUES (<inputs>).
InsertedRow(fs, q, args) ==
    [c \in FieldIdents(fs) |->
        LET i == CHOOSE i \in DOMAIN q.columns : q.columns[i] = c
        IN  args[q.inputs[i]]]

Failed(tbl, status) == [table |-> tbl, status |-> status, rows |-> {}]

\* An INSERT into a table that has no primary key constraint.
ExecInsert_unconstrained(fs, tbl, q, args) ==
    LET row == InsertedRow(fs, q, args)
    IN  [table |-> tbl \cup {row}, status |-> "ok", rows |-> {row}]

\* INSERT ... RETURNING *: a row with the key of a stored row violates the
\* primary key.
ExecInsert(fs, tbl, q, args) ==
    IF \/ ~Bound(Range(q.inputs), args)
       \/ Range(q.columns) # FieldIdents(fs)
       \/ Len(q.inputs) # Len(q.columns)
    THEN Failed(tbl, "statement_error")
    ELSE LET row == InsertedRow(fs, q, args)
         IN  IF \E r \in tbl : SameKey(r, row, PrimaryKey(fs))
             THEN Failed(tbl, "unique_violation")
             ELSE [table |-> tbl \cup {row}, status |-> "ok", rows |-> {row}]

\* The row r after DO UPDATE SET <col> = EXCLUDED.<excluded>, ...
ConflictUpdate(r, set, excluded) ==
    [c \in DOMAIN r |->
        IF \E i \in DOMAIN set : set[i].col = c
        THEN excluded[set[CHOOSE i \in DOMAIN set : set[i].col = c].excluded]
        ELSE r[c]]

HasDuplicateKey(tbl, key) ==
    \E r1, r2 \in tbl : r1 # r2 /\ SameKey(r1, r2, key)

\* INSERT ... ON CONFLICT (<conflict>) DO UPDATE SET ... RETURNING *: the row
\* in conflict on the conflict target is updated in place of the insertion.
ExecUpsert(fs, tbl, q, args) ==
    IF \/ ~Bound(Range(q.inputs), args)
       \/ Range(q.columns) # FieldIdents(fs)
       \/ Len(q.inputs) # Len(q.columns)
       \/ Range(q.conflict) # PrimaryKey(fs)
       \/ Len(q.set) = 0
    THEN Failed(tbl, "statement_error")
    ELSE LET row == InsertedRow(fs, q, args)
             conflicting == {r \in tbl : SameKey(r, row, Range(q.conflict))}
         IN  IF conflicting = {}
             THEN [table |-> tbl \cup {row}, status |-> "ok", rows |-> {row}]
             ELSE LET old == CHOOSE r \in conflicting : TRUE
                      new == ConflictUpdate(old, q.set, row)
                      tbl2 == (tbl \ {old}) \cup {new}
                  IN  IF HasDuplicateKey(tbl2, PrimaryKey(fs))
                         \/ Cardinality(tbl2) # Cardinality(tbl)
                      THEN Failed(tbl, "unique_violation")
                      ELSE [table |-> tbl2, status |-> "ok", rows |-> {new}]

\* SQL NULL, the None of an Option field.
Null == 0

\* <a> = <b> in a condition: not true when either side is NULL.
SqlEq(a, b) == a # Null /\ b # Null /\ a = b

Matches(r, where, args) ==
    \A i \in DOMAIN where : SqlEq(r[where[i].col], args[where[i].ph])

Placeholders(assignments) == {assignments[i].ph : i \in DOMAIN assignments}

\* The row r after SET <col> = $<ph>, ...
Assigned(r, set, args) ==
    [c \in DOMAIN r |->
        IF \E i \in DOMAIN set : set[i].col = c
        THEN args[set[CHOOSE i \in DOMAIN set : set[i].col = c].ph]
        ELSE r[c]]

\* UPDATE ... SET ... WHERE ... RETURNING * under fetch_one: no returned row
\* is the error RowNotFound.
ExecUpdate(fs, tbl, q, args) ==
    IF \/ ~Bound(Placeholders(q.set) \cup Placeholders(q.where), args)
       \/ Len(q.set) = 0
    THEN Failed(tbl, "statement_error")
    ELSE LET matched == {r \in tbl : Matches(r, q.where, args)}
             updated == {Assigned(r, q.set, args) : r \in matched}
             tbl2 == (tbl \ matched) \cup updated
         IN  IF HasDuplicateKey(tbl2, PrimaryKey(fs))
                \/ Cardinality(tbl2) # Cardinality(tbl)
             THEN Failed(tbl, "unique_violation")
             ELSE IF matched = {}
                  THEN Failed(tbl, "row_not_found")
                  ELSE [table |-> tbl2, status |-> "ok", rows |-> updated]

\* SELECT * FROM t WHERE ... under fetch_optional: a matching row, or None.
ExecSelect(fs, tbl, q, args) ==
    IF ~Bound(Placeholders(q.where), args)
    THEN Failed(tbl, "statement_error")
    ELSE LET matched == {r \in tbl : Matches(r, q.where, args)}
         IN  [table |-> tbl, status |-> "ok",
              rows |-> IF matched = {} THEN {NoRow} ELSE matched]

\* SELECT * FROM t under fetch_all: the stored rows, as one collection.
ExecSelectAll(fs, tbl, q, args) ==
    IF ~Bound(Placeholders(q.where), args)
    THEN Failed(tbl, "statement_error")
    ELSE [table |-> tbl, status |-> "ok",
          rows |-> {{r \in tbl : Matches(r, q.where, args)}}]

\* DELETE FROM t WHERE ... under execute: rows_affected() of the result.
ExecDelete(fs, tbl, q, args) ==
    IF ~Bound(Placeholders(q.where), args)
    THEN Failed(tbl, "statement_error")
    ELSE LET matched == {r \in tbl : Matches(r, q.where, args)}
         IN  [table |-> tbl \ matched, status |-> "ok",
              rows |-> {Cardinality(matched)}]

\* INSERT INTO t (<columns>) VALUES ($1, ..) RETURNING * built at call time:
\* a column the statement leaves out takes the default the database computes
\* for it, `defaults` here.
ExecInsertDynamic(fs, tbl, q, args, defaults) ==
    IF \/ ~Bound(Range(q.placeholders), args)
       \/ Len(q.placeholders) # Len(q.columns)
       \/ ~(Range(q.columns) \subseteq FieldIdents(fs))
       \/ \E i, j \in DOMAIN q.columns : i # j /\ q.columns[i] = q.columns[j]
    THEN Failed(tbl, "statement_error")
    ELSE LET row == [c \in FieldIdents(fs) |->
                        IF c \in Range(q.columns)
                        THEN args[q.placeholders[CHOOSE i \in DOMAIN q.columns :
                                                     q.columns[i] = c]]
                        ELSE defaults[c]]
         IN  IF \E r \in tbl : SameKey(r, row, PrimaryKey(fs))
             THEN Failed(tbl, "unique_violation")
             ELSE [table |-> tbl \cup {row}, status |-> "ok", rows |-> {row}]

(***************************************************************************)
(* The relationship accessors: one SELECT on the tables of the database,   *)
(* and the sqlx fetch that turns the matched rows into the result.         *)
(***************************************************************************)
\* All tables by name: the entity's own and the others.
Database(tbl, d) ==
    [t \in {LocalTable} \cup DOMAIN d |-> IF t = LocalTable THEN tbl ELSE d[t]]

\* The bound parameters of an accessor called on `self`, whose get_id() is `key`.
AccessorArgs(a, self, key) ==
    [i \in DOMAIN a.binds |-> IF a.binds[i] = SelfGetId THEN key ELSE self[a.binds[i]]]

\* SELECT * FROM <from> WHERE <col> = $1
SelectRows(D, q, args) == {r \in D[q.from] : Matches(r, q.where, args)}

\* A join that starts at the link table and compares its column with the
\* parameter: the local table is not read.
JoinRows_from_link(D, q, args) ==
    {[link |-> pair[1], row |-> pair[2]] :
        pair \in {t \in D[q.join_link.table] \X D[q.join_remote.table] :
                    /\ SqlEq(t[1][q.join_link.link], args[q.where[1].ph])
                    /\ SqlEq(t[1][q.join_remote.link], t[2][q.join_remote.remote])}}

\* The rows of the two joins, one per pair of a link row and a remote row.
JoinRows(D, q, args) ==
    {[link |-> pair[2], row |-> pair[3]] :
        pair \in {t \in D[q.local] \X D[q.join_link.table] \X D[q.join_remote.table] :
                    /\ SqlEq(t[2][q.join_link.link], t[1][q.join_link.local])
                    /\ SqlEq(t[2][q.join_remote.link], t[3][q.join_remote.remote])
                    /\ Matches(t[1], q.where, args)}}

\* fetch_one fails without a row and fetch_optional gives None; both give the
\* first row the database returns, whichever it is. fetch_all gives them all.
Fetch(fetch, tbl, matched) ==
    CASE fetch = "fetch_one" ->
            IF matched = {} THEN Failed(tbl, "row_not_found")
            ELSE [table |-> tbl, status |-> "ok", rows |-> matched]
      [] fetch = "fetch_optional" ->
            [table |-> tbl, status |-> "ok",
             rows |-> IF matched = {} THEN {NoRow} ELSE matched]
      [] fetch = "fetch_all" ->
            [table |-> tbl, status |-> "ok", rows |-> {matched}]

\* pub async fn get_<name>(&self, pool)
CallAccessor(a, tbl, d, self, key) ==
    LET args == AccessorArgs(a, self, key)
        D == Database(tbl, d)
    IN  Fetch(a.fetch, tbl,
              IF "local" \in DOMAIN a.query
              THEN JoinRows(D, a.query, args)
              ELSE SelectRows(D, a.query, args))

(***************************************************************************)
(* The generator applied to an entity definition.                          *)
(***************************************************************************)
\* Every field of the definition makes a GeormField.
FieldsParse ==
    \A i \in DOMAIN fields :
        ~GeormFieldNewPanics(fields[i]) /\ ~ExtractAttributesFails(fields[i])

InitGen ==
    /\ fields \in EntityDefs
    /\ phase = "declared"
    /\ idType = NoIdType
    /\ queries = NoQueries
    /\ output = NoOutput
    /\ dstruct = NoDefaultable
    /\ dquery = NoDQuery
    /\ table = {}
    /\ ret = NoRet
    /\ callers = <<>>
    /\ struct_attrs = NoAttrs
    /\ rel = NoRel
    /\ db = NoDb

GeormDeriveMacro2 ==
    /\ phase = "declared"
    /\ output' = georm_derive_macro2(struct_attrs, fields)
    /\ phase' = "expanded"
    /\ UNCHANGED <<fields, idType, queries, dstruct, dquery, table, ret, callers, relVars>>

CreatePrimaryKey ==
    /\ phase = "declared"
    /\ FieldsParse
    /\ idType' = create_primary_key(fields)
    /\ phase' = "keyed"
    /\ UNCHANGED <<fields, queries, output, dstruct, dquery, table, ret, callers, relVars>>

DeriveTrait ==
    /\ phase = "keyed"
    /\ idType.shape \in {"Simple", "Composite"}
    /\ queries' = derive_trait(fields, idType)
    /\ phase' = "derived"
    /\ UNCHANGED <<fields, idType, output, dstruct, dquery, table, ret, callers, relVars>>

DeriveDefaultableStruct ==
    /\ phase = "declared"
    /\ FieldsParse
    /\ dstruct' = derive_defaultable_struct(fields)
    /\ phase' = "defaulted"
    /\ UNCHANGED <<fields, idType, queries, output, dquery, table, ret, callers, relVars>>

\* A call of the generated Defaultable::create on a companion value.
DefaultableCreate(some) ==
    /\ phase = "defaulted"
    /\ dstruct.generated
    /\ dquery' = defaultable_create(fields, some)
    /\ phase' = "called"
    /\ UNCHANGED <<fields, idType, queries, output, dstruct, table, ret, callers, relVars>>

DefaultableIdents == {fields[i].ident : i \in {j \in DOMAIN fields : fields[j].defaultable}}

NextGen ==
    \/ GeormDeriveMacro2
    \/ CreatePrimaryKey
    \/ DeriveTrait
    \/ DeriveDefaultableStruct
    \/ \E some \in SUBSET DefaultableIdents : DefaultableCreate(some)

SpecGen == InitGen /\ [][NextGen]_vars

(***************************************************************************)
(* The generated operations (the bodies derive_trait emits), run on a      *)
(* table: each hands one statement and its bind list to the pool.          *)
(***************************************************************************)
\* The entities of the tests and the crate documentation, by their identifier
\* flags: Author (id, name), an entity whose identifier is declared last, and
\* UserRole (user_id, role_id, assigned_at).
Entity(idflags) ==
    [i \in DOMAIN idflags |->
        Field(i, [ty |-> "i32", id |-> idflags[i], defaultable |-> FALSE])]

\* The entities the operations run on: a simple identifier declared first or
\* last, and a composite one; each has a field outside the identifier, as
\* the entities of the tests and of the documentation have.
RuntimeDefs ==
    {Entity(<<TRUE, FALSE>>), Entity(<<FALSE, TRUE>>), Entity(<<TRUE, TRUE, FALSE>>)}

\* The members of the key type: the key itself ("id") or the members of the
\* key struct.
KeyMembers(getid) == {getid[j].member : j \in DOMAIN getid}

Keys == [KeyMembers(queries.get_id) -> Val]

\* fn get_id(&self)
get_id(self) ==
    LET g == queries.get_id
    IN  [n \in KeyMembers(g) |-> self[g[CHOOSE j \in DOMAIN g : g[j].member = n].from]]

\* async fn find_all(pool)
find_all(tbl) == ExecSelectAll(fields, tbl, queries.find_all, <<>>)

\* A find under fetch_one: no row is an error.
find_fetch_one(tbl, id) ==
    LET matched == {r \in tbl : Matches(r, queries.find.where, Args(queries.find.binds, id))}
    IN  IF matched = {} THEN Failed(tbl, "row_not_found")
        ELSE [table |-> tbl, status |-> "ok", rows |-> matched]

\* async fn find(pool, id)
find(tbl, id) == ExecSelect(fields, tbl, queries.find, Args(queries.find.binds, id))

\* A create that issues the query of create_or_update.
create_as_upsert(tbl, self) ==
    ExecUpsert(fields, tbl, queries.upsert, Args(queries.upsert.binds, self))

\* async fn create(&self, pool)
create(tbl, self) == ExecInsert(fields, tbl, queries.create, Args(queries.create.binds, self))

\* An update that issues the query of create_or_update.
update_as_upsert(tbl, self) ==
    ExecUpsert(fields, tbl, queries.upsert, Args(queries.upsert.binds, self))

\* async fn update(&self, pool)
update(tbl, self) == ExecUpdate(fields, tbl, queries.update, Args(queries.update.binds, self))

\* async fn delete_by_id(pool, id)
delete_by_id(tbl, id) ==
    ExecDelete(fields, tbl, queries.delete, Args(queries.delete.binds, id))

\* A delete that removes the stored row equal to the instance in every field.
delete_whole_row(tbl, self) ==
    [table |-> tbl \ {self}, status |-> "ok",
     rows |-> {Cardinality(tbl \cap {self})}]

\* async fn delete(&self, pool): Self::delete_by_id(pool, &self.get_id())
delete(tbl, self) == delete_by_id(tbl, get_id(self))

\* The defaultable fields of a companion value that hold Some(..).
SomeFields(fs, self) ==
    {fs[i].ident : i \in {j \in DOMAIN fs : fs[j].defaultable /\ self[fs[j].ident] # Null}}

\* Defaultable::create(&self, pool) on a companion value
create_default(tbl, self, defaults) ==
    LET q == defaultable_create(fields, SomeFields(fields, self))
    IN  ExecInsertDynamic(fields, tbl, q, Args(q.binds, self), defaults)

\* create_or_update as the fallback that finds, then creates or updates.
create_or_update_check_then_act == <<"find", "act">>

\* The statements create_or_update issues, in order: the one upsert.
create_or_update_statements == <<"upsert">>

\* A create_or_update that issues the query of create.
upsert_as_create(tbl, self) == create(tbl, self)

\* async fn create_or_update(&self, pool), as one statement
upsert(tbl, self) == ExecUpsert(fields, tbl, queries.upsert, Args(queries.upsert.binds, self))

\* One statement of create_or_update run on the table; `found` is what an
\* earlier find of the same call returned.
RunStatement(stmt, tbl, self, found) ==
    CASE stmt = "upsert" -> upsert(tbl, self)
      [] stmt = "find"   -> find(tbl, get_id(self))
      [] stmt = "act"    -> IF found THEN update(tbl, self) ELSE create(tbl, self)

\* The table of a sequential call sequence holds at most MaxRows rows.
Fits(result) == Cardinality(result.table) <= MaxRows

Returned(op, arg, result, row) ==
    [op |-> op, arg |-> arg, status |-> result.status,
     row |-> IF result.status = "ok" THEN row ELSE NoRow]

\* A call that runs the one statement `result` came from.
Call(op, arg, result) ==
    LET r == result
    IN  /\ Fits(r)
        /\ table' = r.table
        /\ \E row \in (IF r.rows = {} THEN {NoRow} ELSE r.rows) :
              ret' = Returned(op, arg, r, row)
        /\ UNCHANGED <<genVars, callers, relVars>>

\* get_id reads the instance alone; it is called on the instances the table
\* holds, each of which a create_or_update has stored.
GetId(x) ==
    /\ phase = "running"
    /\ x \in table
    /\ ret' = [op |-> "get_id", arg |-> x, status |-> "ok", row |-> get_id(x)]
    /\ UNCHANGED <<genVars, table, callers, relVars>>

Find(id) == phase = "running" /\ Call("find", id, find(table, id))

\* create_or_update called alone runs its statements without interleaving.
CreateOrUpdate(x) ==
    /\ phase = "running"
    /\ Len(create_or_update_statements) = 1
    /\ Call("create_or_update", x,
            RunStatement(create_or_update_statements[1], table, x, FALSE))

\* The state once the derive has generated the code of an entity.
Generated(fs) ==
    /\ fields = fs
    /\ idType = create_primary_key(fs)
    /\ queries = derive_trait(fs, create_primary_key(fs))
    /\ output = NoOutput
    /\ dstruct = NoDefaultable
    /\ dquery = NoDQuery
    /\ struct_attrs = NoAttrs
    /\ rel = NoRel
    /\ db = NoDb

Init ==
    /\ \E fs \in RuntimeDefs : Generated(fs)
    /\ phase = "running"
    /\ table = {}
    /\ ret = NoRet
    /\ callers = <<>>

Next ==
    \/ \E x \in table : GetId(x)
    \/ \E id \in Keys : Find(id)
    \/ \E x \in Instances(fields) : CreateOrUpdate(x)

Spec == Init /\ [][Next]_vars

(***************************************************************************)
(* Concurrent callers of create_or_update on one identifier. A call is     *)
(* invoked, then its statements are executed by the database one at a      *)
(* time, each atomically, interleaved with those of the other callers.     *)
(***************************************************************************)
Callers == 1..MaxCallers

NewCaller(x) == [x |-> x, pc |-> 0, found |-> FALSE, status |-> "none", row |-> NoRow]

NonKey(fs) == FieldIdents(fs) \ PrimaryKey(fs)

InitConc ==
    /\ \E fs \in RuntimeDefs : Generated(fs)
    /\ phase = "concurrent"
    /\ ret = NoRet
    /\ \E k \in [PrimaryKey(fields) -> Val] :
          /\ \E ps \in [Callers -> [NonKey(fields) -> Payload]] :
                callers = [c \in Callers |-> NewCaller(k @@ ps[c])]
          /\ table \in {{}} \cup {{k @@ p} : p \in [NonKey(fields) -> Payload]}

Done(c) == callers[c].pc > Len(create_or_update_statements)

\* The caller awaits create_or_update: the call is in flight.
Invoke(c) ==
    /\ phase = "concurrent"
    /\ callers[c].pc = 0
    /\ callers' = [callers EXCEPT ![c].pc = 1]
    /\ UNCHANGED <<genVars, table, ret, relVars>>

\* The database executes the next statement of the call; an error ends the
\* call (the `?` and the returned sqlx::Result).
Execute(c) ==
    LET st == callers[c]
    IN  /\ phase = "concurrent"
        /\ st.pc \in DOMAIN create_or_update_statements
        /\ LET stmt == create_or_update_statements[st.pc]
               r == RunStatement(stmt, table, st.x, st.found)
           IN  /\ table' = r.table
               /\ \E row \in (IF r.rows = {} THEN {NoRow} ELSE r.rows) :
                     callers' = [callers EXCEPT ![c] =
                        [x      |-> st.x,
                         pc     |-> IF r.status = "ok" THEN st.pc + 1
                                    ELSE Len(create_or_update_statements) + 1,
                         found  |-> IF stmt = "find" THEN row # NoRow ELSE st.found,
                         status |-> r.status,
                         row    |-> IF stmt = "find" THEN NoRow ELSE row]]
        /\ UNCHANGED <<genVars, ret, relVars>>

NextConc == \E c \in Callers : Invoke(c) \/ Execute(c)

SpecConc == InitConc /\ [][NextConc]_vars

(***************************************************************************)
(* The relationship accessors called on stored rows. The entity has the    *)
(* identifier a and the foreign key b, and declares one relationship of    *)
(* each kind to the remote table (columns id and ref); the many-to-many    *)
(* one goes through the link table (columns l_id and r_id), and the remote *)
(* entity declares the reversed link, as Book and Genre do.                *)
(***************************************************************************)
Nullables == {Omitted, "true", "false"}

LocalFields(nullable) ==
    <<Field(1, [ty |-> "i32", id |-> TRUE, defaultable |-> FALSE]),
      Field(2, [ty |-> IF nullable = "true" THEN "Option<i32>" ELSE "i32",
                id |-> FALSE, defaultable |-> FALSE])>>

Declared(nullable) ==
    [table        |-> LocalTable,
     relation     |-> <<[field |-> "b", name |-> "target", table |-> RemoteTable,
                         remote_id |-> Omitted, nullable |-> nullable]>>,
     one_to_one   |-> <<[name |-> "owned", table |-> RemoteTable, remote_id |-> "ref"]>>,
     one_to_many  |-> <<[name |-> "items", table |-> RemoteTable, remote_id |-> "ref"]>>,
     many_to_many |-> <<[name |-> "bs", table |-> RemoteTable, remote_id |-> Omitted,
                         link |-> [table |-> LinkTable, from |-> "l_id",
                                   to |-> "r_id"]]>>]

RemoteFields ==
    <<[ident |-> "id", ty |-> "i32", id |-> TRUE, defaultable |-> FALSE],
      [ident |-> "ref", ty |-> "Option<i32>", id |-> FALSE, defaultable |-> FALSE]>>

RemoteDeclared ==
    [NoAttrs EXCEPT
        !.table = RemoteTable,
        !.many_to_many = <<[name |-> "as", table |-> LocalTable, remote_id |-> "a",
                            link |-> [table |-> LinkTable, from |-> "r_id",
                                      to |-> "l_id"]]>>]

\* The accessors the derive generates for the remote entity.
RemoteAccessors ==
    derive_relationships(GeormStructAttributes(RemoteDeclared), RemoteFields,
                         create_primary_key(RemoteFields)).accessors

\* The rows the tables may hold.
LocalRows(fs) ==
    [a : Val, b : IF is_option_type(fs[2].ty) THEN Val \cup {Null} ELSE Val]

RemoteRows == [id : Val, ref : Val \cup {Null}]

LinkRows == [l_id : Val, r_id : Val]

\* The sets of at most MaxRows rows of S, no two with the same value of `key`.
TablesOf(S, key) ==
    {T \in SUBSET S :
        /\ Cardinality(T) <= MaxRows
        /\ \A r1, r2 \in T : r1[key] = r2[key] => r1 = r2}

\* One stored row and its targets, or the two ends of the links.
InitAccess ==
    /\ \E nullable \in Nullables :
          /\ fields = LocalFields(nullable)
          /\ struct_attrs = Declared(nullable)
          /\ \/ /\ table \in {{x} : x \in LocalRows(fields)}
                /\ \E R \in TablesOf(RemoteRows, "id") :
                      db = [t \in {RemoteTable, LinkTable} |->
                               IF t = RemoteTable THEN R ELSE {}]
             \/ /\ nullable = Omitted
                /\ table \in TablesOf({x \in LocalRows(fields) : x.b = 1}, "a")
                /\ \E R \in TablesOf({r \in RemoteRows : r.ref = Null}, "id") :
                   \E L \in {T \in SUBSET LinkRows : Cardinality(T) <= MaxRows} :
                      db = [t \in {RemoteTable, LinkTable} |->
                               IF t = RemoteTable THEN R ELSE L]
    /\ idType = create_primary_key(fields)
    /\ queries = derive_trait(fields, idType)
    /\ rel = derive_relationships(GeormStructAttributes(struct_attrs), fields, idType)
    /\ output = NoOutput
    /\ dstruct = NoDefaultable
    /\ dquery = NoDQuery
    /\ phase = "accessing"
    /\ ret = NoRet
    /\ callers = <<>>

\* x.get_<name>(pool) on a stored row of the entity
GetRelated(x, j) ==
    /\ phase = "accessing"
    /\ ret = NoRet
    /\ Call(rel.accessors[j].function, x,
            CallAccessor(rel.accessors[j], table, db, x, get_id(x)["id"]))

\* b.get_as(pool) on a stored row of the remote entity
GetRelatedRemote(b) ==
    /\ phase = "accessing"
    /\ ret = NoRet
    /\ Call(RemoteAccessors[1].function, b,
            CallAccessor(RemoteAccessors[1], table, db, b,
                         b[create_primary_key(RemoteFields).fields[1].name]))

\* The caller has taken the result.
Return ==
    /\ phase \in {"accessing", "crud", "pooled"}
    /\ ret # NoRet
    /\ ret' = NoRet
    /\ UNCHANGED <<genVars, table, callers, relVars>>

NextAccess ==
    \/ \E x \in table : \E j \in DOMAIN rel.accessors : GetRelated(x, j)
    \/ \E b \in db[RemoteTable] : GetRelatedRemote(b)
    \/ Return

SpecAccess == InitAccess /\ [][NextAccess]_vars

(***************************************************************************)
(* The accessors called on any instance of the entity, stored or not: an   *)
(* instance is a value of the struct, which the caller may have built or   *)
(* kept after its row was deleted.                                         *)
(***************************************************************************)
NextInstance ==
    \/ \E x \in LocalRows(fields) : \E j \in DOMAIN rel.accessors : GetRelated(x, j)
    \/ \E b \in db[RemoteTable] : GetRelatedRemote(b)
    \/ Return

SpecInstance == InitAccess /\ [][NextInstance]_vars

(***************************************************************************)
(* The generator applied to an entity definition that declares             *)
(* relationships: each of the four kinds is absent or declared once, with  *)
(* remote_id written or left out.                                          *)
(***************************************************************************)
RemoteIds == {Omitted, "id", "ref"}

OneOrNone(S) == {<<>>} \cup {<<d>> : d \in S}

RelDeclarations ==
    [table        : {LocalTable},
     relation     : OneOrNone([field : {"b"}, name : {"target"}, table : {RemoteTable},
                               remote_id : RemoteIds, nullable : Nullables]),
     one_to_one   : OneOrNone([name : {"owned"}, table : {RemoteTable},
                               remote_id : RemoteIds]),
     one_to_many  : OneOrNone([name : {"items"}, table : {RemoteTable},
                               remote_id : RemoteIds]),
     many_to_many : OneOrNone([name : {"bs"}, table : {RemoteTable},
                               remote_id : RemoteIds,
                               link : {[table |-> LinkTable, from |-> "l_id",
                                        to |-> "r_id"]}])]

\* Entities of plain fields, the second of which may carry the relation.
RelEntityDefs ==
    {fs \in EntityDefs :
        /\ Len(fs) \in 2..(MaxFields - 1)
        /\ \E i \in DOMAIN fs : fs[i].id
        /\ \A i \in DOMAIN fs : fs[i].ty = "i32" /\ ~fs[i].defaultable}

InitRel ==
    /\ fields \in RelEntityDefs
    /\ struct_attrs \in RelDeclarations
    /\ phase = "declared"
    /\ idType = NoIdType
    /\ queries = NoQueries
    /\ output = NoOutput
    /\ dstruct = NoDefaultable
    /\ dquery = NoDQuery
    /\ table = {}
    /\ ret = NoRet
    /\ callers = <<>>
    /\ rel = NoRel
    /\ db = NoDb

\* derive_relationships on struct attributes that were extracted.
DeriveRelationships ==
    /\ phase = "keyed"
    /\ rel = NoRel
    /\ GeormStructAttributes(struct_attrs).status = "ok"
    /\ rel' = derive_relationships(GeormStructAttributes(struct_attrs), fields, idType)
    /\ UNCHANGED <<genVars, table, ret, callers, struct_attrs, db>>

NextRel ==
    \/ GeormDeriveMacro2
    \/ CreatePrimaryKey
    \/ DeriveRelationships
    \/ DeriveTrait

SpecRel == InitRel /\ [][NextRel]_vars

(***************************************************************************)
(* The generated operations called one after the other on one table: each  *)
(* call hands its one statement to the pool and returns to the caller      *)
(* before the next call, whoever makes it. The entities are those of       *)
(* RuntimeDefs and one whose identifier is defaultable, which has the      *)
(* companion struct with the default-aware create.                         *)
(***************************************************************************)
\* #[georm(id, defaultable)] id: i32 and a plain field, as TestAuthor has.
DefaultableEntity ==
    <<Field(1, [ty |-> "i32", id |-> TRUE, defaultable |-> TRUE]),
      Field(2, [ty |-> "i32", id |-> FALSE, defaultable |-> FALSE])>>

CrudDefs == RuntimeDefs \cup {DefaultableEntity}

\* The values of the companion struct: a defaultable field is an Option and
\* may hold None.
Companions(fs) ==
    {x \in [FieldIdents(fs) -> Val \cup Payload \cup {Null}] :
        \A i \in DOMAIN fs :
            \/ x[fs[i].ident] \in (IF fs[i].id THEN Val ELSE Payload)
            \/ fs[i].defaultable /\ x[fs[i].ident] = Null}

InitCrud ==
    /\ \E fs \in CrudDefs :
          /\ fields = fs
          /\ idType = create_primary_key(fs)
          /\ queries = derive_trait(fs, create_primary_key(fs))
          /\ dstruct = derive_defaultable_struct(fs)
    /\ output = NoOutput
    /\ dquery = NoDQuery
    /\ struct_attrs = NoAttrs
    /\ rel = NoRel
    /\ db = NoDb
    /\ phase = "crud"
    /\ table = {}
    /\ ret = NoRet
    /\ callers = <<>>

\* The caller is between two calls.
Idle == phase = "crud" /\ ret = NoRet

CallFindAll == Idle /\ Call("find_all", NoRow, find_all(table))

CallFind(id) == Idle /\ Call("find", id, find(table, id))

CallCreate(x) == Idle /\ Call("create", x, create(table, x))

CallUpdate(x) == Idle /\ Call("update", x, update(table, x))

CallCreateOrUpdate(x) == Idle /\ Call("create_or_update", x, upsert(table, x))

CallDeleteById(id) == Idle /\ Call("delete_by_id", id, delete_by_id(table, id))

CallDelete(x) == Idle /\ Call("delete", x, delete(table, x))

\* The default-aware create; the database computes `defaults` for the columns
\* the statement leaves out.
CallCreateDefault(x, defaults) ==
    /\ Idle
    /\ dstruct.generated
    /\ Call("create_default", x, create_default(table, x, defaults))

NextCrud ==
    \/ CallFindAll
    \/ \E id \in Keys : CallFind(id)
    \/ \E x \in Instances(fields) : CallCreate(x)
    \/ \E x \in Instances(fields) : CallUpdate(x)
    \/ \E x \in Instances(fields) : CallCreateOrUpdate(x)
    \/ \E id \in Keys : CallDeleteById(id)
    \/ \E x \in Instances(fields) : CallDelete(x)
    \/ /\ dstruct.generated
       /\ \E x \in Companions(fields) : \E defaults \in Instances(fields) :
             CallCreateDefault(x, defaults)
    \/ Return

SpecCrud == InitCrud /\ [][NextCrud]_vars

(***************************************************************************)
(* The calls of one caller seen as the statements they hand to the pool.   *)
(* A call is invoked, the pool executes its statements one at a time, and  *)
(* the call returns when they are done or one has failed (the `?` and the  *)
(* returned sqlx::Result). A caller that got rows from an accessor may     *)
(* call an accessor on one of them, and so traverse a chain; `callers`     *)
(* holds the calls of the chain in order, each with the number of          *)
(* statements issued for it. The entity is the one with the defaultable    *)
(* identifier, declaring the relationships of Declared.                    *)
(***************************************************************************)
\* The statements the body of a generated operation issues, in order: every
\* body is one query handed to the pool.
Statements(op) ==
    IF op = "create_or_update" THEN create_or_update_statements ELSE <<op>>

NewCall(op, arg) ==
    [op |-> op, arg |-> arg, pc |-> 1, found |-> FALSE, status |-> "none",
     row |-> NoRow, issued |-> 0]

HasReturned(c) == c.pc > Len(Statements(c.op))

\* The accessor behind a call: get_as is the remote entity's, the others
\* are the entity's own.
AccessorOf(op) ==
    IF op = RemoteAccessors[1].function THEN RemoteAccessors[1]
    ELSE rel.accessors[CHOOSE j \in DOMAIN rel.accessors : rel.accessors[j].function = op]

LocalAccessorNames == {rel.accessors[j].function : j \in DOMAIN rel.accessors}

\* The entities a returned accessor call handed to the caller.
EntitiesOf(c) ==
    IF c.status # "ok" THEN {}
    ELSE LET a == AccessorOf(c.op)
         IN  CASE a.fetch = "fetch_all" /\ "local" \in DOMAIN a.query ->
                      {p.row : p \in c.row}
               [] a.fetch = "fetch_all" -> c.row
               [] OTHER -> IF c.row = NoRow THEN {} ELSE {c.row}

\* The statement `stmt` of the call c run on the database.
RunOp(c, stmt, defaults) ==
    CASE c.op = "create_or_update" -> RunStatement(stmt, table, c.arg, c.found)
      [] c.op = "find_all"         -> find_all(table)
      [] c.op = "find"             -> find(table, c.arg)
      [] c.op = "create"           -> create(table, c.arg)
      [] c.op = "create_default"   -> create_default(table, c.arg, defaults)
      [] c.op = "update"           -> update(table, c.arg)
      [] c.op = "delete"           -> delete(table, c.arg)
      [] c.op = "delete_by_id"     -> delete_by_id(table, c.arg)
      [] c.op = RemoteAccessors[1].function ->
            CallAccessor(AccessorOf(c.op), table, db, c.arg, c.arg.id)
      [] OTHER ->
            CallAccessor(AccessorOf(c.op), table, db, c.arg, get_id(c.arg)["id"])

InitStmt ==
    /\ fields = DefaultableEntity
    /\ struct_attrs = Declared(Omitted)
    /\ idType = create_primary_key(fields)
    /\ queries = derive_trait(fields, idType)
    /\ dstruct = derive_defaultable_struct(fields)
    /\ rel = derive_relationships(GeormStructAttributes(struct_attrs), fields, idType)
    /\ table \in {{}} \cup {{x} : x \in LocalRows(fields)}
    /\ \E R \in SUBSET {r \in RemoteRows : r.ref = Null} :
       \E L \in {{}} \cup {{l} : l \in LinkRows} :
          db = [t \in {RemoteTable, LinkTable} |-> IF t = RemoteTable THEN R ELSE L]
    /\ output = NoOutput
    /\ dquery = NoDQuery
    /\ phase = "issuing"
    /\ ret = NoRet
    /\ callers = <<>>

\* A call of one of the operations of the traits.
InvokeOperation(op, arg) ==
    /\ phase = "issuing"
    /\ callers = <<>>
    /\ callers' = <<NewCall(op, arg)>>
    /\ UNCHANGED <<genVars, table, ret, relVars>>

\* A call of an accessor: on a stored row, or on an entity the call before
\* returned, once it has returned.
InvokeAccessor(op, x) ==
    /\ phase = "issuing"
    /\ Len(callers) < MaxChain
    /\ IF callers = <<>>
       THEN x \in table /\ op \in LocalAccessorNames
       ELSE LET last == callers[Len(callers)]
            IN  /\ HasReturned(last)
                /\ last.op \in LocalAccessorNames \cup {RemoteAccessors[1].function}
                /\ x \in EntitiesOf(last)
                /\ IF last.op \in LocalAccessorNames
                   THEN op = RemoteAccessors[1].function
                   ELSE op \in LocalAccessorNames
    /\ callers' = Append(callers, NewCall(op, x))
    /\ UNCHANGED <<genVars, table, ret, relVars>>

\* The pool executes the next statement of the call in flight.
ExecuteStatement(defaults) ==
    /\ phase = "issuing"
    /\ callers # <<>>
    /\ LET n == Len(callers)
           c == callers[n]
       IN  /\ ~HasReturned(c)
           /\ LET stmt == Statements(c.op)[c.pc]
                  r == RunOp(c, stmt, defaults)
              IN  /\ table' = r.table
                  /\ \E row \in (IF r.rows = {} THEN {NoRow} ELSE r.rows) :
                        callers' = [callers EXCEPT ![n] =
                           [op     |-> c.op,
                            arg    |-> c.arg,
                            pc     |-> IF r.status = "ok" THEN c.pc + 1
                                       ELSE Len(Statements(c.op)) + 1,
                            found  |-> IF stmt = "find" /\ c.op = "create_or_update"
                                       THEN row # NoRow ELSE c.found,
                            status |-> r.status,
                            row    |-> row,
                            issued |-> c.issued + 1]]
    /\ UNCHANGED <<genVars, ret, relVars>>

NextStmt ==
    \/ InvokeOperation("find_all", NoRow)
    \/ \E op \in {"find", "delete_by_id"} : \E id \in Keys : InvokeOperation(op, id)
    \/ \E op \in {"create", "update", "create_or_update", "delete"} :
          \E x \in Instances(fields) : InvokeOperation(op, x)
    \/ \E x \in Companions(fields) : InvokeOperation("create_default", x)
    \/ \E op \in LocalAccessorNames \cup {RemoteAccessors[1].function} :
          \E x \in table \cup db[RemoteTable] : InvokeAccessor(op, x)
    \/ \E defaults \in Instances(fields) : ExecuteStatement(defaults)

SpecStmt == InitStmt /\ [][NextStmt]_vars

(***************************************************************************)
(* Concurrent callers on one pool: each awaits one call at a time, and the *)
(* database executes the statements of the calls in flight one at a time,  *)
(* in any order.                                                           *)
(***************************************************************************)
NoCall == [op |-> "none", arg |-> NoRow]

\* The call of caller c is in flight.
Pending(c) == callers[c] # NoCall

\* The callers contend for one identifier: the values they pass carry the
\* first identifier value, or leave the identifier to the database. A
\* statement selects rows by identifier, so calls on different identifiers
\* do not interfere; rows with other identifiers come from the defaults.
Sent(S) == {x \in S : \A i \in DOMAIN fields :
                          ~fields[i].id \/ x[fields[i].ident] \in {1, Null}}

\* Two payloads make two rows of one identifier; create is called with
\* either, the other operations with the first.
FirstPayload(S) == {x \in S : \A i \in DOMAIN fields :
                                  fields[i].id \/ x[fields[i].ident] = MaxVal + 1}

InitPool ==
    /\ fields = DefaultableEntity
    /\ struct_attrs = NoAttrs
    /\ idType = create_primary_key(fields)
    /\ queries = derive_trait(fields, idType)
    /\ dstruct = derive_defaultable_struct(fields)
    /\ rel = NoRel
    /\ db = NoDb
    /\ table = {}
    /\ output = NoOutput
    /\ dquery = NoDQuery
    /\ phase = "pooled"
    /\ ret = NoRet
    /\ callers = [c \in Callers |-> NoCall]

\* Caller c awaits op(arg): the call is in flight.
Submit(c, op, arg) ==
    /\ phase = "pooled"
    /\ ret = NoRet
    /\ ~Pending(c)
    /\ callers' = [callers EXCEPT ![c] = [op |-> op, arg |-> arg]]
    /\ UNCHANGED <<genVars, table, ret, relVars>>

\* The database executes the statement of the call of c, and c is handed the
\* result (`ret`, until Return).
Answer(c, defaults) ==
    /\ phase = "pooled"
    /\ ret = NoRet
    /\ Pending(c)
    /\ LET call == [op |-> callers[c].op, arg |-> callers[c].arg, found |-> FALSE]
           r == RunOp(call, Statements(call.op)[1], defaults)
       IN  /\ table' = r.table
           /\ \E row \in (IF r.rows = {} THEN {NoRow} ELSE r.rows) :
                 ret' = Returned(call.op, call.arg, r, row)
    /\ callers' = [callers EXCEPT ![c] = NoCall]
    /\ UNCHANGED <<genVars, relVars>>

\* The defaults the database may compute for the call of c.
DefaultsFor(c) ==
    IF callers[c].op = "create_default"
    THEN Instances(fields)
    ELSE {CHOOSE d \in Instances(fields) : TRUE}

NextPool ==
    \/ \E c \in Callers : \E x \in Sent(Instances(fields)) : Submit(c, "create", x)
    \/ \E c \in Callers : \E op \in {"update", "create_or_update", "delete"} :
          \E x \in FirstPayload(Sent(Instances(fields))) : Submit(c, op, x)
    \/ \E c \in Callers : \E x \in FirstPayload(Sent(Companions(fields))) :
          Submit(c, "create_default", x)
    \/ \E c \in Callers : \E x \in FirstPayload(Sent(Instances(fields))) :
          Submit(c, "delete_by_id", get_id(x))
    \/ \E c \in Callers : \E defaults \in DefaultsFor(c) : Answer(c, defaults)
    \/ Return

SpecPool == InitPool /\ [][NextPool]_vars

(***************************************************************************)
(* The generator applied to an entity definition whose fields may carry    *)
(* #[georm(column = "..")], as the User of the macro crate's documentation.*)
(***************************************************************************)
ColumnName == "col"

ColEntityDefs ==
    UNION {{[i \in 1..n |->
                [ident |-> Idents[i], ty |-> "i32", id |-> attrs[i].id,
                 defaultable |-> FALSE, column |-> attrs[i].column]] :
            attrs \in [1..n -> [id : BOOLEAN, column : {Omitted, ColumnName}]]}
           : n \in 1..MaxFields}

InitCol ==
    /\ fields \in ColEntityDefs
    /\ phase = "declared"
    /\ idType = NoIdType
    /\ queries = NoQueries
    /\ output = NoOutput
    /\ dstruct = NoDefaultable
    /\ dquery = NoDQuery
    /\ table = {}
    /\ ret = NoRet
    /\ callers = <<>>
    /\ struct_attrs = NoAttrs
    /\ rel = NoRel
    /\ db = NoDb

NextCol ==
    \/ GeormDeriveMacro2
    \/ CreatePrimaryKey
    \/ DeriveTrait

SpecCol == InitCol /\ [][NextCol]_vars

(***************************************************************************)
(* Properties of the synthesized queries.                                  *)
(***************************************************************************)
DeclaredIdents == {fields[i].ident : i \in DOMAIN fields}

IdIdents == {fields[i].ident : i \in {j \in DOMAIN fields : fields[j].id}}

NonIdIdents == DeclaredIdents \ IdIdents

NonDefaultableIdents == DeclaredIdents \ DefaultableIdents

\* names lists declared fields, each before the ones declared after it.
InDeclarationOrder(names) ==
    /\ Range(names) \subseteq DeclaredIdents
    /\ \A i, j \in DOMAIN names :
          i < j => \E p, q \in DOMAIN fields :
                      p < q /\ fields[p].ident = names[i] /\ fields[q].ident = names[j]

Columns(assignments) == [i \in DOMAIN assignments |-> assignments[i].col]

\* C4: the update query numbers the k non-identifier fields $1..$k in the SET
\* clause and the m identifier fields $k+1..$k+m in the WHERE clause, both in
\* declaration order, and the bind list gives placeholder $i the field written
\* next to $i.
C4_UpdatePlaceholderNumbering ==
    phase = "derived" =>
        LET q == queries.update
            k == Cardinality(NonIdIdents)
            m == Cardinality(IdIdents)
        IN  /\ Len(q.set) = k /\ Len(q.where) = m /\ Len(q.binds) = k + m
            /\ Range(Columns(q.set)) = NonIdIdents
            /\ Range(Columns(q.where)) = IdIdents
            /\ InDeclarationOrder(Columns(q.set))
            /\ InDeclarationOrder(Columns(q.where))
            /\ \A i \in 1..k : q.set[i].ph = i
            /\ \A j \in 1..m : q.where[j].ph = k + j
            /\ \A i \in 1..k : q.binds[i] = q.set[i].col
            /\ \A j \in 1..m : q.binds[k + j] = q.where[j].col
            /\ \A w \in Range(q.set) \cup Range(q.where) :
                  w.ph \in DOMAIN q.binds /\ q.binds[w.ph] = w.col

\* An update query for a composite identifier whose first identifier field is
\* declared before a non-identifier field.
C4_Witness ==
    /\ phase = "derived"
    /\ idType.shape = "Composite"
    /\ fields[1].id
    /\ NonIdIdents # {}

\* C5: the create and the upsert query list all n declared fields as columns
\* in declaration order with placeholders $1..$n, and the i-th bound parameter
\* is the i-th declared field.
C5_CreateUpsertPlaceholderNumbering ==
    phase = "derived" =>
        \A q \in {queries.create,
                  [columns |-> queries.upsert.columns, inputs |-> queries.upsert.inputs,
                   binds |-> queries.upsert.binds]} :
            /\ Len(q.columns) = Len(fields)
            /\ Len(q.inputs) = Len(fields)
            /\ Len(q.binds) = Len(fields)
            /\ \A i \in DOMAIN fields :
                  /\ q.columns[i] = fields[i].ident
                  /\ q.inputs[i] = i
                  /\ q.binds[i] = fields[i].ident

\* Create and upsert queries for an entity of several fields.
C5_Witness ==
    /\ phase = "derived"
    /\ Len(fields) >= 2
    /\ Len(queries.create.columns) >= 2
    /\ Len(queries.upsert.columns) >= 2

\* C6: the columns of the default-aware INSERT are the non-defaultable fields
\* and the defaultable fields that hold a value, in declaration order.
C6_DefaultableColumnsInDeclarationOrder ==
    phase = "called" =>
        /\ Range(dquery.columns) = NonDefaultableIdents \cup dquery.some
        /\ Len(dquery.columns) = Cardinality(NonDefaultableIdents \cup dquery.some)
        /\ InDeclarationOrder(dquery.columns)

\* C7: the default-aware INSERT has as many placeholders and bound values as
\* columns, the placeholders are $1..$n, and the i-th bound value is the field
\* the i-th column names.
C7_DefaultableAlignment ==
    phase = "called" =>
        /\ Len(dquery.placeholders) = Len(dquery.columns)
        /\ Len(dquery.binds) = Len(dquery.columns)
        /\ \A i \in DOMAIN dquery.columns :
              /\ dquery.placeholders[i] = i
              /\ dquery.binds[i] = dquery.columns[i]

\* A default-aware create with a defaultable field that holds a value, one that
\* holds none, and a non-defaultable field.
C7_Witness ==
    /\ phase = "called"
    /\ dquery.some # {}
    /\ DefaultableIdents \ dquery.some # {}
    /\ NonDefaultableIdents # {}

\* The fields declared both defaultable and of an Option type, by position.
DefaultableOptions ==
    {i \in DOMAIN fields : fields[i].defaultable /\ fields[i].ty = "Option<i32>"}

\* The fields of an Option type that are not defaultable, by position.
PlainOptions ==
    {i \in DOMAIN fields : ~fields[i].defaultable /\ fields[i].ty = "Option<i32>"}

\* C15: a definition with a field that is both defaultable and of an Option
\* type aborts the derive with an error that names the field (the first such
\* field), and no companion type, operation or query is produced for it; a
\* field of an Option type that is not defaultable does not abort the derive
\* and appears in the companion type with its type unchanged.
C15_DefaultableOptionAborts ==
    /\ DefaultableOptions # {} =>
          /\ phase = "expanded" =>
                /\ output.status = "panic"
                /\ output.message = "cannot be marked as defaultable"
                /\ \E i \in DefaultableOptions :
                      /\ output.field = fields[i].ident
                      /\ \A j \in DefaultableOptions : i <= j
          /\ phase \in {"declared", "expanded"}
          /\ ~output.defaultable_struct.generated /\ ~dstruct.generated
          /\ ~output.trait_impl.generated /\ ~queries.generated
          /\ ~dquery.built
    /\ DefaultableOptions = {} =>
          /\ phase = "expanded" => output.status # "panic"
          /\ \A i \in PlainOptions :
                /\ dstruct.generated =>
                      dstruct.fields[i] = [ident |-> fields[i].ident, ty |-> fields[i].ty]
                /\ output.defaultable_struct.generated =>
                      output.defaultable_struct.fields[i] =
                          [ident |-> fields[i].ident, ty |-> fields[i].ty]

\* The derive has aborted on a definition whose first field is a plain Option
\* and which has a defaultable Option after it.
C15_Witness ==
    /\ phase = "expanded"
    /\ output.status = "panic"
    /\ 1 \in PlainOptions
    /\ DefaultableOptions # {}
    /\ output.field # fields[1].ident

\* The identifier fields of the definition, in declaration order, with their types.
DeclaredIdMembers ==
    LET idx == {i \in DOMAIN fields : fields[i].id}
        nth(n) == CHOOSE i \in idx : Cardinality({j \in idx : j < i}) = n - 1
    IN  [n \in 1..Cardinality(idx) |->
            [name |-> fields[nth(n)].ident, ty |-> fields[nth(n)].ty]]

\* C9: a definition with two or more identifier fields is accepted by the
\* derive and resolved to the Composite shape, with a key struct <Entity>Id
\* holding exactly the identifier fields, in declaration order, with their types.
C9_CompositeAccepted ==
    (phase = "expanded" /\ FieldsParse /\ Cardinality(IdIdents) >= 2) =>
        /\ output.status = "ok"
        /\ output.id.shape = "Composite"
        /\ output.id.struct.name = StructName \o "Id"
        /\ output.id.struct.members = DeclaredIdMembers

\* C10: a definition without an identifier field aborts the derive with an
\* error, and no operation set, key type or query is produced for it.
C10_NoIdentifierAborts ==
    Cardinality(IdIdents) = 0 =>
        /\ phase = "expanded" => output.status \in {"error", "panic"}
        /\ phase = "keyed" => idType.shape = "panic"
        /\ ~output.trait_impl.generated
        /\ ~queries.generated
        /\ output.id.struct = NoStruct /\ idType.struct = NoStruct
        /\ ~output.defaultable_struct.generated
        /\ ~dstruct.generated
        /\ ~dquery.built

\* The derive has run on a definition of several fields, none an identifier.
C10_Witness ==
    /\ phase = "expanded"
    /\ Len(fields) >= 2
    /\ FieldsParse
    /\ Cardinality(IdIdents) = 0

(***************************************************************************)
(* Properties of the generated operations.                                 *)
(***************************************************************************)
\* The rows of the table with the identifier of x.
RowsWithKeyOf(x) == {r \in table : SameKey(r, x, PrimaryKey(fields))}

\* C1: however concurrent create_or_update calls on one identifier are
\* interleaved, no call fails with a uniqueness violation, and once all have
\* returned the table holds exactly one row with that identifier, which is the
\* instance one of the callers supplied.
C1_UpsertAtomic ==
    phase = "concurrent" =>
        /\ \A c \in Callers : callers[c].status # "unique_violation"
        /\ \A c \in Callers : Done(c) => callers[c].status = "ok"
        /\ (\A c \in Callers : Done(c)) =>
              /\ Cardinality(RowsWithKeyOf(callers[1].x)) = 1
              /\ \E c \in Callers : callers[c].x \in table

\* Every caller has returned, and two of them supplied different values.
C1_Witness ==
    /\ phase = "concurrent"
    /\ \A c \in Callers : Done(c)
    /\ \E c, d \in Callers : callers[c].x # callers[d].x

\* C2: a create_or_update of the instance the previous call upserted leaves
\* the table as it is and returns the same row.
C2_UpsertIdempotent ==
    [][(/\ ret.op = "create_or_update"
        /\ ret'.op = "create_or_update"
        /\ ret'.arg = ret.arg)
       => (table' = table /\ ret'.status = ret.status /\ ret'.row = ret.row)]_vars

\* A create_or_update has returned the row it stored, next to another row.
C2_Witness ==
    /\ ret.op = "create_or_update"
    /\ ret.status = "ok"
    /\ ret.row = ret.arg
    /\ ret.row \in table
    /\ Cardinality(table) >= 2

\* find(x.id); if present, update(x); else create(x).
CheckThenAct(tbl, x) ==
    IF find(tbl, get_id(x)).rows # {NoRow} THEN update(tbl, x) ELSE create(tbl, x)

\* C3: a create_or_update step leaves the table, and returns the row, that
\* the check-then-act reference leaves and returns from the same table: a
\* direct create when no row has the identifier, an update otherwise.
C3_UpsertRefinesCheckThenAct ==
    [][ret'.op = "create_or_update" =>
        LET x == ret'.arg
            ref == CheckThenAct(table, x)
        IN  /\ table' = ref.table
            /\ ret'.status = ref.status
            /\ ret'.row \in ref.rows
            /\ RowsWithKeyOf(x) = {} => ref = create(table, x) /\ ret'.row = x
            /\ RowsWithKeyOf(x) # {} => ref = update(table, x)]_vars

\* A create_or_update has returned the row of a composite identifier stored
\* next to another row.
C3_Witness ==
    /\ ret.op = "create_or_update"
    /\ ret.status = "ok"
    /\ idType.shape = "Composite"
    /\ Cardinality(table) >= 2

\* C8: get_id copies each identifier field to the key member of the same
\* name, and find with the key of a stored row returns a row with these
\* identifier values.
C8_CompositeKeyRoundTrip ==
    phase = "running" =>
        /\ ret.op = "get_id" =>
              /\ idType.shape = "Composite" => DOMAIN ret.row = PrimaryKey(fields)
              /\ idType.shape = "Composite" =>
                    \A f \in PrimaryKey(fields) : ret.row[f] = ret.arg[f]
              /\ idType.shape = "Simple" =>
                    \A f \in PrimaryKey(fields) : ret.row["id"] = ret.arg[f]
        /\ \A x \in table :
              LET found == find(table, get_id(x))
              IN  /\ found.status = "ok"
                  /\ \A r \in found.rows :
                        r # NoRow /\ \A f \in PrimaryKey(fields) : r[f] = x[f]
        /\ (ret.op = "find" /\ \E x \in table : get_id(x) = ret.arg) =>
              /\ ret.status = "ok"
              /\ ret.row \in table
              /\ get_id(ret.row) = ret.arg

\* find has returned a stored row of a composite identifier whose two
\* identifier values differ, stored next to another row.
C8_Witness ==
    /\ ret.op = "find"
    /\ idType.shape = "Composite"
    /\ ret.row \in table
    /\ Cardinality(table) >= 2
    /\ \E f, g \in PrimaryKey(fields) : ret.row[f] # ret.row[g]

(***************************************************************************)
(* Properties of the relationship accessors.                               *)
(***************************************************************************)
\* The field-level relation as extracted, with its defaults.
DeclaredRelation == GeormStructAttributes(struct_attrs).relation[1]

\* The rows of the remote table whose key is the foreign key x holds.
Targets(x) == {r \in db[RemoteTable] : x.b # Null /\ r[DeclaredRelation.remote_id] = x.b}

\* C11: the accessor of a field-level relation declared nullable returns an
\* absent result, without error, when the foreign key is null or no target
\* row has that key; the accessor of a non-nullable one (the default) returns
\* an error when no target row has the key; both return the target row otherwise.
C11_FieldAccessorAbsence ==
    (phase = "accessing" /\ ret.op = "get_target") =>
        LET targets == Targets(ret.arg)
        IN  /\ DeclaredRelation.nullable =>
                  /\ ret.status = "ok"
                  /\ targets = {} => ret.row = NoRow
                  /\ targets # {} => ret.row \in targets
            /\ ~DeclaredRelation.nullable =>
                  /\ targets = {} => ret.status = "row_not_found" /\ ret.row = NoRow
                  /\ targets # {} => ret.status = "ok" /\ ret.row \in targets

\* The accessor of a nullable relation has returned an absent result for a null
\* foreign key while the remote table holds rows.
C11_Witness ==
    /\ phase = "accessing"
    /\ ret.op = "get_target"
    /\ struct_attrs.relation[1].nullable = "true"
    /\ ret.arg.b = Null
    /\ ret.status = "ok"
    /\ ret.row = NoRow
    /\ db[RemoteTable] # {}

\* The accessor the entity generates under the name `function`.
AccessorNamed(function) ==
    rel.accessors[CHOOSE j \in DOMAIN rel.accessors : rel.accessors[j].function = function]

\* The rows a many-to-many accessor has returned.
Related(collection) == {p.row : p \in collection}

\* a.get_bs(pool) and b.get_as(pool) on the stored tables
get_bs(a) ==
    Related(CHOOSE c \in CallAccessor(AccessorNamed("get_bs"), table, db, a, a.a).rows : TRUE)

get_as(b) ==
    Related(CHOOSE c \in CallAccessor(RemoteAccessors[1], table, db, b, b.id).rows : TRUE)

\* C12: when the entity declares a many-to-many relationship through the link
\* (from l_id, to r_id) and the remote entity declares the reversed link over
\* the same link table, then for every stored a and b, b is among the rows
\* a.get_bs() returns exactly when a is among the rows b.get_as() returns;
\* and this is so for the collection either accessor has just returned.
C12_ManyToManySymmetry ==
    phase = "accessing" =>
        /\ \A a \in table : \A b \in db[RemoteTable] :
               b \in get_bs(a) <=> a \in get_as(b)
        /\ ret.op = "get_bs" =>
               /\ ret.status = "ok"
               /\ \A b \in db[RemoteTable] :
                      b \in Related(ret.row) <=> ret.arg \in get_as(b)
        /\ ret.op = "get_as" =>
               /\ ret.status = "ok"
               /\ \A a \in table :
                      a \in Related(ret.row) <=> ret.arg \in get_bs(a)

\* get_bs has returned one of two stored remote rows, through a link row whose
\* two columns differ, and left the other out.
C12_Witness ==
    /\ phase = "accessing"
    /\ ret.op = "get_bs"
    /\ \E b, c \in db[RemoteTable] :
          /\ b \in Related(ret.row)
          /\ c \notin Related(ret.row)
          /\ ret.arg \in get_as(b)
          /\ ret.arg.a # b.id

(***************************************************************************)
(* Properties of the relationship generator.                               *)
(***************************************************************************)
\* The declarations of the definition, of all four kinds.
Declarations ==
    Range(struct_attrs.relation) \cup Range(struct_attrs.one_to_one)
    \cup Range(struct_attrs.one_to_many) \cup Range(struct_attrs.many_to_many)

\* C13: for an entity with a composite identifier that declares a
\* relationship, the derive succeeds, emits the diagnostic, generates no
\* relationship accessor, and still generates the CRUD operations.
C13_CompositeSkipsRelationships ==
    (phase = "expanded" /\ Cardinality(IdIdents) >= 2 /\ Declarations # {}) =>
        /\ output.status = "ok"
        /\ output.relationships.warning
        /\ ~output.relationships.generated
        /\ output.relationships.accessors = <<>>
        /\ output.trait_impl.generated

\* The column of the remote table an accessor's query compares.
RemoteColumn(a) ==
    IF "local" \in DOMAIN a.query THEN a.query.join_remote.remote
    ELSE a.query.where[1].col

\* C14: for each of the four kinds of relationship, a declaration that leaves
\* remote_id out is accepted by the derive, and the query of the accessor it
\* generates uses the column "id".
C14_RemoteIdDefaultsToId ==
    (phase = "expanded" /\ Cardinality(IdIdents) = 1) =>
        \A d \in Declarations :
            d.remote_id = Omitted =>
                /\ output.status = "ok"
                /\ \E j \in DOMAIN output.relationships.accessors :
                      LET a == output.relationships.accessors[j]
                      IN  a.function = "get_" \o d.name /\ RemoteColumn(a) = "id"

(***************************************************************************)
(* Properties of the operations called one after the other. A step from an *)
(* idle caller is one call: the unprimed table is the table before it, and *)
(* ret' holds the call and what it returned.                               *)
(***************************************************************************)
\* The stored rows whose identifier is id.
RowsIdentifiedBy(id) == {r \in table : get_id(r) = id}

\* C16: update on an instance whose identifier matches no stored row returns
\* the error of a statement that returned no row, and leaves the table as it
\* was: it never inserts, whatever calls came before, a delete included.
C16_UpdateNeverInserts ==
    [][(Idle /\ ret'.op = "update" /\ RowsWithKeyOf(ret'.arg) = {}) =>
          /\ ret'.status = "row_not_found"
          /\ ret'.row = NoRow
          /\ table' = table]_vars

\* An update has failed for want of a row while the table holds other rows.
C16_Witness ==
    /\ phase = "crud"
    /\ ret.op = "update"
    /\ ret.status = "row_not_found"
    /\ RowsWithKeyOf(ret.arg) = {}
    /\ table # {}

\* C17: create, and the default-aware create with an explicit identifier, on
\* an instance whose identifier is that of a stored row returns a uniqueness
\* violation and leaves the table as it was: the stored row keeps its field
\* values and no row is added.
C17_CreateOnExistingFails ==
    [][(/\ Idle
        /\ ret'.op \in {"create", "create_default"}
        /\ \A c \in PrimaryKey(fields) : ret'.arg[c] # Null
        /\ RowsWithKeyOf(ret'.arg) # {}) =>
          /\ ret'.status = "unique_violation"
          /\ ret'.row = NoRow
          /\ table' = table]_vars

\* A create has failed on the identifier of a stored row whose other fields
\* differ from those of the instance.
C17_Witness ==
    /\ phase = "crud"
    /\ ret.op = "create"
    /\ ret.status = "unique_violation"
    /\ \E r \in RowsWithKeyOf(ret.arg) : r # ret.arg

\* C18: delete_by_id(id) returns the number of rows it removed: 1 when a row
\* with that identifier is stored, and then that row alone is removed; 0,
\* without error, when none is, and then the table is unchanged. A find(id)
\* after it returns no row, and an identifier that finds no row finds one
\* again only by a create or create_or_update that stored a row with it.
C18_DeleteByIdFrame ==
    [][/\ (Idle /\ ret'.op = "delete_by_id") =>
             LET hit == RowsIdentifiedBy(ret'.arg)
             IN  /\ ret'.status = "ok"
                 /\ Cardinality(hit) <= 1
                 /\ ret'.row = Cardinality(hit)
                 /\ table' = table \ hit
                 /\ find(table', ret'.arg).rows = {NoRow}
       /\ phase = "crud" =>
             \A id \in Keys :
                 (find(table, id).rows = {NoRow} /\ find(table', id).rows # {NoRow}) =>
                     /\ ret'.op \in {"create", "create_or_update", "create_default"}
                     /\ ret'.status = "ok"
                     /\ get_id(ret'.row) = id]_vars

\* delete_by_id on a composite identifier has removed one row and left a row
\* that shares a member of the identifier with it.
C18_Witness ==
    /\ phase = "crud"
    /\ ret.op = "delete_by_id"
    /\ ret.status = "ok"
    /\ ret.row = 1
    /\ Cardinality(PrimaryKey(fields)) >= 2
    /\ \E r \in table : \E m \in DOMAIN ret.arg : r[m] = ret.arg[m]

\* C19: find(id) returns the stored row whose identifier is id when there is
\* one, and an absent result without error when there is none, for simple and
\* composite identifiers alike; find_all returns every stored row, the empty
\* collection on an empty table, without error. Neither changes the table.
C19_FindReturnsStored ==
    [][/\ (Idle /\ ret'.op = "find") =>
             LET hit == RowsIdentifiedBy(ret'.arg)
             IN  /\ ret'.status = "ok"
                 /\ hit = {} => ret'.row = NoRow
                 /\ hit # {} => ret'.row \in hit
                 /\ table' = table
       /\ (Idle /\ ret'.op = "find_all") =>
             /\ ret'.status = "ok"
             /\ ret'.row = table
             /\ table' = table]_vars

\* find on a composite identifier has returned an absent result while a
\* stored row shares a member of the identifier with it.
C19_Witness ==
    /\ phase = "crud"
    /\ ret.op = "find"
    /\ ret.status = "ok"
    /\ ret.row = NoRow
    /\ Cardinality(PrimaryKey(fields)) >= 2
    /\ \E r \in table : \E m \in DOMAIN ret.arg : r[m] = ret.arg[m]

Referring(col, x) == {r \in db[RemoteTable] : r[col] # Null /\ r[col] = x.a}

\* C21: the one-to-many accessor of an instance with identifier k returns
\* exactly the rows of the target table whose declared remote column equals
\* k, as one collection, and the empty collection without error when there
\* is none.
C21_OneToManyRows ==
    (phase = "accessing" /\ ret.op = "get_items") =>
        /\ ret.status = "ok"
        /\ ret.row = Referring(GeormStructAttributes(struct_attrs).one_to_many[1].remote_id,
                               ret.arg)

\* The one-to-many accessor has returned a collection of two rows.
C21_Witness ==
    /\ phase = "accessing"
    /\ ret.op = "get_items"
    /\ ret.status = "ok"
    /\ Cardinality(ret.row) >= 2

\* C22: the struct-level one-to-one accessor of an instance with identifier
\* k returns an optional result and never an error: absent when no target
\* row's remote column equals k, one of the target rows whose remote column
\* equals k otherwise, also when several do.
C22_OneToOneOptional ==
    (phase = "accessing" /\ ret.op = "get_owned") =>
        LET owned == Referring(GeormStructAttributes(struct_attrs).one_to_one[1].remote_id,
                               ret.arg)
        IN  /\ ret.status = "ok"
            /\ owned = {} => ret.row = NoRow
            /\ owned # {} => ret.row \in owned

\* The one-to-one accessor has returned one of two target rows that match.
C22_Witness ==
    /\ phase = "accessing"
    /\ ret.op = "get_owned"
    /\ ret.status = "ok"
    /\ Cardinality(Referring("ref", ret.arg)) >= 2
    /\ ret.row \in Referring("ref", ret.arg)

(***************************************************************************)
(* Further properties of the operations called one after the other.        *)
(***************************************************************************)
\* C23: x.delete() has the effect on the table, and returns the count, of
\* delete_by_id(x.get_id()), for every instance x and every table: it removes
\* the stored row with x's identifier, whatever the other fields of x hold.
C23_DeleteDelegates ==
    [][(Idle /\ ret'.op = "delete") =>
          LET by_id == delete_by_id(table, get_id(ret'.arg))
          IN  /\ table' = by_id.table
              /\ ret'.status = by_id.status
              /\ ret'.row \in by_id.rows
              /\ table' = table \ RowsIdentifiedBy(get_id(ret'.arg))
              /\ ret'.row = Cardinality(RowsIdentifiedBy(get_id(ret'.arg)))]_vars

\* A delete has removed a row and another row is still stored.
C23_Witness ==
    /\ phase = "crud"
    /\ ret.op = "delete"
    /\ ret.status = "ok"
    /\ ret.row = 1
    /\ ret.arg \notin table
    /\ table # {}

(***************************************************************************)
(* Properties of the statements issued.                                    *)
(***************************************************************************)
\* C24: every call of a generated operation or accessor issues exactly one
\* statement, whether it succeeds or fails: a call that has returned has
\* issued one statement, a failed one included (no retry), a call in flight
\* none yet; the calls of a chain are made one after the other, so a chain of
\* N accessors that have returned has issued N statements.
C24_OneStatementPerCall ==
    phase = "issuing" =>
        /\ \A i \in DOMAIN callers :
              /\ HasReturned(callers[i]) => callers[i].issued = 1
              /\ ~HasReturned(callers[i]) => callers[i].issued = 0
              /\ callers[i].status \notin {"ok", "none"} => HasReturned(callers[i])
              /\ i < Len(callers) => HasReturned(callers[i])
        /\ LET total[i \in 0..Len(callers)] ==
                  IF i = 0 THEN 0 ELSE total[i - 1] + callers[i].issued
           IN  (callers # <<>> /\ HasReturned(callers[Len(callers)])) =>
                   total[Len(callers)] = Len(callers)

\* A chain of MaxChain accessors has been traversed, the last of which failed.
C24_Witness ==
    /\ phase = "issuing"
    /\ Len(callers) = MaxChain
    /\ HasReturned(callers[MaxChain])
    /\ callers[MaxChain].status = "row_not_found"

(***************************************************************************)
(* Properties of the column names.                                         *)
(***************************************************************************)
\* The column the documentation gives a field: the one written in
\* column = "..", the field's own name without the attribute.
ColumnOf(f) == IF f.column # Omitted THEN f.column ELSE f.ident

ColumnsOf(fs) == [i \in DOMAIN fs |-> ColumnOf(fs[i])]

\* C25: a definition with a field that carries column = "c" is accepted, and
\* every synthesized query (find, create, update, upsert, delete) names that
\* field's column c; a field without the attribute is named as the field.
C25_ColumnAttribute ==
    (phase = "expanded" /\ Cardinality(IdIdents) = 1) =>
        /\ output.status = "ok"
        /\ output.trait_impl.create.columns = ColumnsOf(fields)
        /\ output.trait_impl.upsert.columns = ColumnsOf(fields)
        /\ Columns(output.trait_impl.update.set) = ColumnsOf(FilterSeq(fields, NotId))
        /\ Columns(output.trait_impl.update.where) = ColumnsOf(FilterSeq(fields, IsId))
        /\ Columns(output.trait_impl.find.where) = ColumnsOf(FilterSeq(fields, IsId))
        /\ Columns(output.trait_impl.delete.where) = ColumnsOf(FilterSeq(fields, IsId))

(***************************************************************************)
(* Properties of the conditions of find and delete.                        *)
(***************************************************************************)
\* The identifier fields f1..fm in declaration order.
IdFieldNames == [i \in DOMAIN FilterSeq(fields, IsId) |-> FilterSeq(fields, IsId)[i].ident]

\* The condition f1 = $1 AND .. AND fm = $m whose i-th parameter is member fi
\* of the key, or <id_field> = $1 bound to the key itself.
ByIdentifier(q) ==
    IF Len(IdFieldNames) = 1
    THEN /\ q.where = <<[col |-> IdFieldNames[1], ph |-> 1]>>
         /\ q.binds = <<"id">>
    ELSE /\ q.where = [i \in DOMAIN IdFieldNames |-> [col |-> IdFieldNames[i], ph |-> i]]
         /\ q.binds = IdFieldNames

\* C26: find-by-identifier and delete-by-identifier both use the condition
\* f1 = $1 AND .. AND fm = $m over the identifier fields in declaration
\* order, the i-th bound parameter being member fi of the key; for a simple
\* identifier they use <id_field> = $1 bound to the key.
C26_FindDeleteCondition ==
    phase = "derived" => ByIdentifier(queries.find) /\ ByIdentifier(queries.delete)

\* The queries of a composite identifier whose members are not the first
\* fields declared.
C26_Witness ==
    /\ phase = "derived"
    /\ Len(IdFieldNames) >= 2
    /\ ~fields[1].id
    /\ Len(queries.find.where) = Len(IdFieldNames)
    /\ Len(queries.delete.where) = Len(IdFieldNames)

(***************************************************************************)
(* Properties of the rows update and create_or_update touch.               *)
(***************************************************************************)
\* The stored rows whose identifier is not the identifier of x.
OtherRows(tbl, x) == {r \in tbl : ~SameKey(r, x, PrimaryKey(fields))}

\* C27: update(x) and create_or_update(x) change at most the row that has the
\* identifier of x: every other row is left as it was, no identifier is
\* modified (the SET lists hold non-identifier fields only and the conflict
\* target of the upsert is the set of identifier fields), and after success
\* the non-identifier fields of that row are those of x.
C27_OnlyTheIdentifiedRow ==
    [][(Idle /\ ret'.op \in {"update", "create_or_update"}) =>
          LET x == ret'.arg
              key == PrimaryKey(fields)
          IN  /\ OtherRows(table', x) = OtherRows(table, x)
              /\ Cardinality(table' \ OtherRows(table', x)) <= 1
              /\ (table \ OtherRows(table, x) # {}) => (table' \ OtherRows(table', x) # {})
              /\ Range(Columns(queries.update.set)) \cap key = {}
              /\ Range(Columns(queries.upsert.set)) \cap key = {}
              /\ Range(queries.upsert.conflict) = key
              /\ ret'.status = "ok" =>
                    \E r \in table' :
                        /\ SameKey(r, x, key)
                        /\ \A c \in FieldIdents(fields) \ key : r[c] = x[c]]_vars

\* An update that succeeded on a row stored next to another one with which it
\* shares a member of a composite identifier.
C27_Witness ==
    /\ phase = "crud"
    /\ ret # NoRet
    /\ ret.op = "update"
    /\ ret.status = "ok"
    /\ ret.arg \in table
    /\ Cardinality(PrimaryKey(fields)) = 2
    /\ \E r \in table : r # ret.arg /\ r[fields[1].ident] = ret.arg[fields[1].ident]

(***************************************************************************)
(* Properties of the many-to-many accessor on any instance.                *)
(***************************************************************************)
\* The pairs of a link row from k and the remote row it leads to.
LinkedPairs(k) ==
    {[link |-> l, row |-> r] :
        <<l, r>> \in {p \in db[LinkTable] \X db[RemoteTable] :
                        p[1].l_id = k /\ p[1].r_id = p[2].id}}

\* C28: the many-to-many accessor of an instance with identifier k returns
\* one target row per pair of a link row l and a target row r with l.from = k
\* and l.to = r.remote_id when a local row with identifier k is stored, and
\* nothing else; it returns the empty collection without error when there is
\* no such pair, and when no local row with identifier k is stored, link
\* rows or not.
C28_ManyToManyRows ==
    (phase = "accessing" /\ ret.op = "get_bs") =>
        /\ ret.status = "ok"
        /\ ret.row = IF \E a \in table : a.a = ret.arg.a
                     THEN LinkedPairs(ret.arg.a)
                     ELSE {}

\* get_bs has returned the empty collection to an instance that is not
\* stored while a link row leads from its identifier to a stored remote row.
C28_Witness ==
    /\ phase = "accessing"
    /\ ret.op = "get_bs"
    /\ ret.status = "ok"
    /\ ret.row = {}
    /\ \A a \in table : a.a # ret.arg.a
    /\ LinkedPairs(ret.arg.a) # {}

(***************************************************************************)
(* Properties of the SET lists.                                            *)
(***************************************************************************)
\* C29: for every entity definition that is accepted (it has at least one
\* identifier field) the update query and the upsert query each have at
\* least one assignment in their SET list, also when every field of the
\* entity is an identifier field.
C29_SetListNonEmpty ==
    /\ phase = "derived" =>
          Len(queries.update.set) >= 1 /\ Len(queries.upsert.set) >= 1
    /\ (phase = "expanded" /\ output.status = "ok") =>
          /\ Len(output.trait_impl.update.set) >= 1
          /\ Len(output.trait_impl.upsert.set) >= 1

(***************************************************************************)
(* Properties of the identifiers under concurrent callers.                 *)
(***************************************************************************)
\* Caller d has a create of the identifier of x in flight.
CreatePending(d, x) ==
    /\ Pending(d)
    /\ callers[d].op = "create"
    /\ SameKey(callers[d].arg, x, PrimaryKey(fields))

====
